---------------------------- MODULE Spec2Model ----------------------------
(***************************************************************************)
(* State-machine models of the hooks of the usely library:                 *)
(*   useAsync           (src/src/hooks/useAsync.ts)                        *)
(*   useDebounceCallback (src/src/hooks/useDebounceCallback.ts)            *)
(*   useDebounceValue   (src/src/hooks/useElementSize.ts, lines 105-114)   *)
(*   useUndoRedoState   (src/unnamed/part_003, lines 58-120)               *)
(*   useLocalStorage    (src/docs/useIdleCallback.md, lines 110-194)       *)
(*   useClickOutside    (src/unnamed/part_002, lines 13-39)                *)
(*   useEventListenerRef (src/src/hooks/useEventListenerRef.ts)            *)
(*   useVisibilityObserver (src/unnamed/part_003, lines 16-55)             *)
(*   useIdleCallback    (src/src/hooks/useElementSize.ts, lines 56-89)     *)
(* Each hook has its own specification (SpecAsync, SpecDebounce,           *)
(* SpecDebounceValueFair, SpecUndo, SpecStorage, SpecClick, SpecListener,  *)
(* SpecObserver, SpecIdle); the variables of the other hooks stay at       *)
(* their initial values.                                                   *)
(*                                                                         *)
(* React state cells are modelled by the value the hook last wrote with    *)
(* its setter: a call of a setter is a write of the cell, so that a guard  *)
(* in the hook (mountedRef, an early return) is what decides whether the   *)
(* cell changes.  Values captured by a closure at render time are separate *)
(* variables, refreshed by the Render action of the hook.                  *)
(***************************************************************************)
EXTENDS Integers, Sequences, FiniteSets, TLC

VARIABLES
    \* ---- useAsync -------------------------------------------------------
    data,               \* state.data : null or Just(result)
    loading,            \* state.loading
    error,              \* state.error : null or Just(Error object)
    mountedRef,         \* mountedRef.current
    abortControllerRef, \* abortControllerRef.current : 0 (null) or controller id
    aborted,            \* controllers whose abort() has been called
    ops,                \* the calls of execute, in order: the awaited promise of each,
                        \*   the callbacks it invoked and the promise it returned
    asyncFunction,      \* identity of the asyncFunction argument of the last render
    options,            \* the options argument
    afterReset,         \* history: the last call on the hook was reset()
    \* ---- useDebounceCallback / useDebounceValue -----------------------------
    hook,               \* which of the two hooks the component under study uses
    mounted,            \* that component is mounted
    timers,             \* the active timers: handle -> [kind, left, payload]
    nextHandle,         \* number of setTimeout calls so far (handles are 1, 2, ...)
    callback,           \* useDebounceCallback: the callback argument of the last render
    callbackRef,        \* useDebounceCallback: callbackRef.current
    delay,              \* useDebounceCallback: the delay argument of the last render
    timeoutRef,         \* useDebounceCallback: timeoutRef.current, 0 for null
    value,              \* useDebounceValue: the value argument of the last render
    vdelay,             \* useDebounceValue: the delay argument of the last render
    debounced,          \* useDebounceValue: the debounced state
    handler,            \* useDebounceValue: the handle held by the effect's cleanup
    lastCall,           \* history: null or Just of the last trigger (a call of
                        \*   debouncedFn, a changed value or delay of useDebounceValue);
                        \*   pending: the previous trigger's timer when still active
    sinceCall,          \* history: time since that trigger, counted up to MaxDelay + 1
    invoked,            \* history: the invocations of the callback since that call
    atUnmount,          \* history: the timers pending at unmount (with the time
                        \*   they had left, running down) and the debounced value then
    \* ---- useUndoRedoState ---------------------------------------------------
    state,              \* the state cell: the current value
    history,            \* the history cell, oldest first
    future,             \* the future cell, nearest to current first
    initialRef,         \* initialRef.current: the baseline of reset()
    closureState,       \* `state` as captured by undo and redo at the last render
    lastOp,             \* history: the last call on the hook, [op, arg]
    pre,                \* history: the cells and initialRef just before that call
    \* ---- useLocalStorage ----------------------------------------------------
    storedValue,        \* the state cell: the current value
    storage,            \* window.localStorage entry of key: null or Just(string)
    closureStored,      \* storedValue as captured by setValue at the last render
    lsInitialValue,     \* the initialValue argument
    lsLastOp,           \* history: the last call on the hook and what it did
    lsPre,              \* history: the cells just before that call
    \* ---- useClickOutside ----------------------------------------------------
    coMounted,          \* the component using the hook is mounted
    enabled,            \* the enabled argument of the last render
    coHandler,          \* the handler argument of the last render
    refCurrent,         \* ref.current: null or Just(element)
    docListeners,       \* the listeners registered on document: [type, handler],
                        \*   handler being the one the listener closure captured
    coEvent,            \* history: null or Just of the last event dispatched, with
                        \*   the handlers it invoked and the hook's state then
    \* ---- useEventListenerRef ------------------------------------------------
    elMounted,          \* the component using the hook is mounted
    eventName,          \* the eventName argument
    elHandler,          \* the handler argument of the last render
    savedHandler,       \* savedHandler.current
    node,               \* the node state cell: null or Just(element)
    nodeListeners,      \* the listeners registered on elements: [node, name]
    lastRefArg,         \* history: the argument of the last call of the ref callback
    elEvent,            \* history: null or Just of the last event dispatched
    \* ---- useVisibilityObserver ----------------------------------------------
    voMounted,          \* the component using the hook is mounted
    once,               \* options.once
    isVisible,          \* the isVisible state cell
    observerRef,        \* observerRef.current: 0 (null) or observer id
    elementRef,         \* elementRef.current: null or Just(element)
    observers,          \* the connected observers: [id, target, once]
    observerCount,      \* number of observers created so far (ids are 1, 2, ...)
    lastEntries,        \* history: null or Just of the entries last delivered
    onceFired,          \* history: with once, an intersecting entry was delivered
    \* ---- useIdleCallback ----------------------------------------------------
    icMounted,          \* the component using the hook is mounted
    icEnv,              \* "requestIdleCallback" or "setTimeout" (the fallback)
    icCallback,         \* the callback argument of the last render
    icCallbackRef,      \* callbackRef.current
    deps,               \* options.deps of the last render (its identity)
    idleHandle,         \* the handle held by the cleanup of the last effect
    idleQueue,          \* the handles scheduled and neither run nor cancelled
    idleCount,          \* number of callbacks scheduled so far (handles are 1, 2, ...)
    idleRuns,           \* history: the runs of scheduled callbacks, in order
    idleCancelled,      \* history: the handles cancelled before they ran
    depChanges          \* history: number of renders that changed deps

avars == <<data, loading, error, mountedRef, abortControllerRef, aborted, ops,
           asyncFunction, options, afterReset>>

dvars == <<hook, mounted, timers, nextHandle, callback, callbackRef, delay, timeoutRef,
           value, vdelay, debounced, handler, lastCall, sinceCall, invoked,
           atUnmount>>

uvars == <<state, history, future, initialRef, closureState, lastOp, pre>>

lvars == <<storedValue, storage, closureStored, lsInitialValue, lsLastOp, lsPre>>

cvars == <<coMounted, enabled, coHandler, refCurrent, docListeners, coEvent>>

evars == <<elMounted, eventName, elHandler, savedHandler, node, nodeListeners,
           lastRefArg, elEvent>>

ovars == <<voMounted, once, isVisible, observerRef, elementRef, observers,
           observerCount, lastEntries, onceFired>>

ivars == <<icMounted, icEnv, icCallback, icCallbackRef, deps, idleHandle, idleQueue,
           idleCount, idleRuns, idleCancelled, depChanges>>

\* The hooks that listen to the DOM or the scheduler.
hvars == <<cvars, evars, ovars, ivars>>

vars == <<avars, dvars, uvars, lvars, hvars>>

-----------------------------------------------------------------------------
(* Bounds *)
MaxOps == 2        \* calls of execute per behaviour
NumResults == 2    \* distinct results asyncFunction can resolve with
NumFns == 2        \* distinct identities of the asyncFunction argument
MaxDelay == 2      \* delays range over 0..MaxDelay
MaxTimers == 3     \* setTimeout calls per behaviour
NumArgs == 3       \* distinct arguments / input values
NumCallbacks == 2  \* distinct callback functions
MaxValue == 2      \* values of the undo/redo store range over 0..MaxValue
MaxDepth == 2      \* set is called only while history is shorter than this
MaxObservers == 3  \* IntersectionObservers created per behaviour
MaxEntries == 2    \* entries delivered to an observer callback at once
MaxIdle == 3       \* idle callbacks scheduled per behaviour
NumDeps == 2       \* distinct identities of the deps of useIdleCallback

-----------------------------------------------------------------------------
(* Shared helpers *)
null == <<>>
undefined == <<>>
Just(x) == <<x>>

-----------------------------------------------------------------------------
(* useAsync *)

Results == 1..NumResults

\* Identities of the function passed as asyncFunction: a component that
\* passes an inline function passes a new identity at every render.
Fns == 1..NumFns

\* The options argument: immediate, and whether onSuccess and onError are
\* configured.  The options of a component are the same at every render.
Options == [immediate : BOOLEAN, onSuccess : BOOLEAN, onError : BOOLEAN]

NoOptions == [immediate |-> FALSE, onSuccess |-> FALSE, onError |-> FALSE]

ErrorObj(name, message) == [isError |-> TRUE, name |-> name, message |-> message]

\* Values asyncFunction can reject with: an Error, an Error named AbortError,
\* and a plain string (message holds the string itself).
Thrown ==
    { ErrorObj("Error", "boom"),
      ErrorObj("AbortError", "aborted"),
      [isError |-> FALSE, name |-> "", message |-> "String error"] }

IsAbortError(e) == e.isError /\ e.name = "AbortError"

\* error instanceof Error ? error : new Error(String(error))
ToErrorObj(e) == IF e.isError THEN e ELSE ErrorObj("Error", e.message)

nOps == Len(ops)

Pending(i) == i \in 1..nOps /\ ops[i].status = "pending"

\* The promise returned by execute: pending, fulfilled with value (Just(r)
\* or undefined) or rejected with reason Just(e).
PromisePending == [state |-> "pending", value |-> undefined, reason |-> null]

Fulfilled(v) == [state |-> "fulfilled", value |-> v, reason |-> null]

Rejected(e) == [state |-> "rejected", value |-> undefined, reason |-> Just(e)]

\* A call of execute that has reached its await.  by: "call" for a call by
\* the component, "effect" for the call of the immediate effect; overlap: the
\* previous call was still awaiting its promise; called: the option callbacks
\* this call has invoked.
NewOp(by, overlap) ==
    [status |-> "pending", value |-> 0, thrown |-> null, overlap |-> overlap,
     by |-> by, called |-> <<>>, promise |-> PromisePending,
     resetInFlight |-> FALSE]

\* The hook after its first render and its effects, called as
\* useAsync(fn, opts): with opts.immediate the effect of lines 108-112 has
\* called execute.
useAsync(fn, opts) ==
    /\ asyncFunction = fn
    /\ options = opts
    /\ data = null
    /\ error = null
    /\ mountedRef = TRUE
    /\ aborted = {}
    /\ afterReset = FALSE
    /\ IF opts.immediate
       THEN /\ loading = TRUE
            /\ abortControllerRef = 1
            /\ ops = <<NewOp("effect", FALSE)>>
       ELSE /\ loading = FALSE
            /\ abortControllerRef = 0
            /\ ops = <<>>

\* History: reset() was called while the latest call was awaiting its
\* promise (reset itself does not touch the call).  The mark is kept for
\* the latest call only: Superseded takes it off when execute is called again.
MarkReset(o) ==
    [i \in 1..Len(o) |->
        IF i = Len(o) /\ o[i].status = "pending"
        THEN [o[i] EXCEPT !.resetInFlight = TRUE]
        ELSE o[i]]

Superseded(o) == [i \in 1..Len(o) |-> [o[i] EXCEPT !.resetInFlight = FALSE]]

\* Variant of reset that leaves the state alone while a call is in flight.
reset_OnlyWhenIdle ==
    /\ IF \E i \in 1..nOps : Pending(i)
       THEN UNCHANGED <<data, loading, error>>
       ELSE /\ data' = null
            /\ loading' = FALSE
            /\ error' = null
    /\ afterReset' = TRUE
    /\ ops' = MarkReset(ops)
    /\ UNCHANGED <<mountedRef, abortControllerRef, aborted, asyncFunction,
                   options>>

\* reset(): setState({data: null, loading: false, error: null})
reset ==
    /\ data' = null
    /\ loading' = FALSE
    /\ error' = null
    /\ afterReset' = TRUE
    /\ ops' = MarkReset(ops)
    /\ UNCHANGED <<mountedRef, abortControllerRef, aborted, asyncFunction,
                   options>>

\* execute(...args) up to the await: abort the previous controller, install a
\* new one, setState(prev => ({...prev, loading: true, error: null})), call
\* asyncFunction.
executeBy(by) ==
    /\ nOps < MaxOps
    /\ aborted' = IF abortControllerRef # 0
                  THEN aborted \cup {abortControllerRef} ELSE aborted
    /\ abortControllerRef' = nOps + 1
    /\ loading' = TRUE
    /\ error' = null
    /\ ops' = Append(Superseded(ops), NewOp(by, Pending(nOps)))
    /\ afterReset' = FALSE
    /\ UNCHANGED <<data, mountedRef>>

\* Variant of execute that clears data when the call starts.
execute_ClearData ==
    /\ nOps < MaxOps
    /\ aborted' = IF abortControllerRef # 0
                  THEN aborted \cup {abortControllerRef} ELSE aborted
    /\ abortControllerRef' = nOps + 1
    /\ data' = null
    /\ loading' = TRUE
    /\ error' = null
    /\ ops' = Append(Superseded(ops), NewOp("call", Pending(nOps)))
    /\ afterReset' = FALSE
    /\ UNCHANGED <<mountedRef, asyncFunction, options>>

\* A call of execute by the component.
execute ==
    /\ executeBy("call")
    /\ UNCHANGED <<asyncFunction, options>>

\* Variant of resolve that invokes onSuccess twice.
resolve_OnSuccessTwice(i, r) ==
    /\ Pending(i)
    /\ ops' = [ops EXCEPT ![i] =
                  [@ EXCEPT !.status = "resolved",
                            !.value = r,
                            !.called = IF mountedRef /\ options.onSuccess
                                       THEN <<[fn |-> "onSuccess", arg |-> Just(r)],
                                              [fn |-> "onSuccess", arg |-> Just(r)]>>
                                       ELSE <<>>,
                            !.promise = Fulfilled(Just(r))]]
    /\ IF mountedRef
       THEN /\ data' = Just(r)
            /\ loading' = FALSE
            /\ error' = null
       ELSE UNCHANGED <<data, loading, error>>
    /\ afterReset' = FALSE
    /\ UNCHANGED <<mountedRef, abortControllerRef, aborted, asyncFunction, options>>

\* Variant of resolve that drops the result of a call that was in flight
\* when reset() was called.
resolve_DroppedAfterReset(i, r) ==
    /\ Pending(i)
    /\ ops' = [ops EXCEPT ![i] =
                  [@ EXCEPT !.status = "resolved",
                            !.value = r,
                            !.called = IF mountedRef /\ options.onSuccess
                                          /\ ~ops[i].resetInFlight
                                       THEN <<[fn |-> "onSuccess", arg |-> Just(r)]>>
                                       ELSE <<>>,
                            !.promise = Fulfilled(Just(r))]]
    /\ IF mountedRef /\ ~ops[i].resetInFlight
       THEN /\ data' = Just(r)
            /\ loading' = FALSE
            /\ error' = null
       ELSE UNCHANGED <<data, loading, error>>
    /\ afterReset' = FALSE
    /\ UNCHANGED <<mountedRef, abortControllerRef, aborted, asyncFunction, options>>

\* The promise of call i resolves with r: the code after the await, lines 70-81.
resolve(i, r) ==
    /\ Pending(i)
    /\ ops' = [ops EXCEPT ![i] =
                  [@ EXCEPT !.status = "resolved",
                            !.value = r,
                            !.called = IF mountedRef /\ options.onSuccess
                                       THEN <<[fn |-> "onSuccess", arg |-> Just(r)]>>
                                       ELSE <<>>,
                            !.promise = Fulfilled(Just(r))]]
    /\ IF mountedRef
       THEN /\ data' = Just(r)
            /\ loading' = FALSE
            /\ error' = null
       ELSE UNCHANGED <<data, loading, error>>
    /\ afterReset' = FALSE
    /\ UNCHANGED <<mountedRef, abortControllerRef, aborted, asyncFunction, options>>

\* Variant of reject that stores the thrown value as it is.
reject_NoNormalize(i, e) ==
    /\ Pending(i)
    /\ ops' = [ops EXCEPT ![i] =
                  [@ EXCEPT !.status = "rejected",
                            !.thrown = Just(e),
                            !.called = IF ~IsAbortError(e) /\ mountedRef
                                          /\ options.onError
                                       THEN <<[fn |-> "onError", arg |-> Just(e)]>>
                                       ELSE <<>>,
                            !.promise = IF IsAbortError(e)
                                        THEN Fulfilled(undefined)
                                        ELSE Rejected(e)]]
    /\ IF ~IsAbortError(e) /\ mountedRef
       THEN /\ data' = null
            /\ loading' = FALSE
            /\ error' = Just(e)
       ELSE UNCHANGED <<data, loading, error>>
    /\ afterReset' = FALSE
    /\ UNCHANGED <<mountedRef, abortControllerRef, aborted, asyncFunction, options>>

\* Variant of reject without the AbortError branch of lines 84-86.
reject_AbortAsError(i, e) ==
    /\ Pending(i)
    /\ ops' = [ops EXCEPT ![i] =
                  [@ EXCEPT !.status = "rejected",
                            !.thrown = Just(e),
                            !.called = IF mountedRef /\ options.onError
                                       THEN <<[fn |-> "onError",
                                               arg |-> Just(ToErrorObj(e))]>>
                                       ELSE <<>>,
                            !.promise = Rejected(e)]]
    /\ IF mountedRef
       THEN /\ data' = null
            /\ loading' = FALSE
            /\ error' = Just(ToErrorObj(e))
       ELSE UNCHANGED <<data, loading, error>>
    /\ afterReset' = FALSE
    /\ UNCHANGED <<mountedRef, abortControllerRef, aborted, asyncFunction, options>>

\* Variant of reject that rethrows the normalized Error.
reject_ThrowNormalized(i, e) ==
    /\ Pending(i)
    /\ ops' = [ops EXCEPT ![i] =
                  [@ EXCEPT !.status = "rejected",
                            !.thrown = Just(e),
                            !.called = IF ~IsAbortError(e) /\ mountedRef
                                          /\ options.onError
                                       THEN <<[fn |-> "onError",
                                               arg |-> Just(ToErrorObj(e))]>>
                                       ELSE <<>>,
                            !.promise = IF IsAbortError(e)
                                        THEN Fulfilled(undefined)
                                        ELSE Rejected(ToErrorObj(e))]]
    /\ IF ~IsAbortError(e) /\ mountedRef
       THEN /\ data' = null
            /\ loading' = FALSE
            /\ error' = Just(ToErrorObj(e))
       ELSE UNCHANGED <<data, loading, error>>
    /\ afterReset' = FALSE
    /\ UNCHANGED <<mountedRef, abortControllerRef, aborted, asyncFunction, options>>

\* The promise of call i rejects with e: the catch block, lines 82-102.
reject(i, e) ==
    /\ Pending(i)
    /\ ops' = [ops EXCEPT ![i] =
                  [@ EXCEPT !.status = "rejected",
                            !.thrown = Just(e),
                            !.called = IF ~IsAbortError(e) /\ mountedRef
                                          /\ options.onError
                                       THEN <<[fn |-> "onError",
                                               arg |-> Just(ToErrorObj(e))]>>
                                       ELSE <<>>,
                            !.promise = IF IsAbortError(e)
                                        THEN Fulfilled(undefined)
                                        ELSE Rejected(e)]]
    /\ IF ~IsAbortError(e) /\ mountedRef
       THEN /\ data' = null
            /\ loading' = FALSE
            /\ error' = Just(ToErrorObj(e))
       ELSE UNCHANGED <<data, loading, error>>
    /\ afterReset' = FALSE
    /\ UNCHANGED <<mountedRef, abortControllerRef, aborted, asyncFunction, options>>

\* A re-render of the mounted component (after a state update of the hook or
\* of a parent) passing fn as asyncFunction.  execute is memoised on
\* [asyncFunction, options.onSuccess, options.onError] and the effect of
\* lines 108-112 on [execute, options.immediate]: the effect runs again when
\* the identity of asyncFunction has changed, and calls execute when
\* options.immediate is set.
renderAsync(fn) ==
    /\ mountedRef
    /\ asyncFunction' = fn
    /\ IF fn # asyncFunction /\ options.immediate
       THEN executeBy("effect")
       ELSE /\ afterReset' = FALSE
            /\ UNCHANGED <<data, loading, error, mountedRef, abortControllerRef,
                           aborted, ops>>
    /\ UNCHANGED options

\* Cleanup of the mount effect, lines 115-122; React runs it once.
unmountAsync ==
    /\ mountedRef
    /\ mountedRef' = FALSE
    /\ aborted' = IF abortControllerRef # 0
                  THEN aborted \cup {abortControllerRef} ELSE aborted
    /\ afterReset' = FALSE
    /\ UNCHANGED <<data, loading, error, abortControllerRef, ops, asyncFunction,
                   options>>

-----------------------------------------------------------------------------
(* useDebounceCallback and useDebounceValue.  The hooks share no state, so
   the component under study uses one of them (hook); the variables of the
   other one keep their initial values.  Time is discrete: a timer set with delay d has d units left, tick takes one unit
   off every active timer, and a timer with nothing left fires before the
   next tick. *)

Delays == 0..MaxDelay
Args == 1..NumArgs
Callbacks == 1..NumCallbacks

\* setTimeout(fn, d) returning handle h: the active timers with h added.
SetTimeout(ts, h, kind, d, payload) ==
    [g \in DOMAIN ts \cup {h} |->
        IF g = h THEN [kind |-> kind, left |-> d, payload |-> payload] ELSE ts[g]]

\* clearTimeout(ref): the active timers without ref (no effect when ref has
\* fired or was cleared before).
ClearTimeout(ts, ref) == [g \in DOMAIN ts \ {ref} |-> ts[g]]

\* if (ref) clearTimeout(ref); 0 is null.
ClearIfSet(ts, ref) == IF ref # 0 THEN ClearTimeout(ts, ref) ELSE ts

\* useDebounceCallback(cb, d) after the first render and its effects:
\* callbackRef holds the callback and no timer is set.
useDebounceCallback(cb, d) ==
    /\ hook = "useDebounceCallback"
    /\ mounted = TRUE
    /\ callback = cb
    /\ callbackRef = cb
    /\ delay = d
    /\ timeoutRef = 0
    /\ nextHandle = 0
    /\ timers = <<>>
    /\ lastCall = null
    /\ sinceCall = 0
    /\ invoked = <<>>
    /\ atUnmount = [pending |-> <<>>, debounced |-> 0]
    /\ value = 0 /\ vdelay = 0 /\ debounced = 0 /\ handler = 0

\* useDebounceValue(v, vd) after the first render and its effects: the state
\* is v and the effect has set its first timer.
useDebounceValue(v, vd) ==
    /\ hook = "useDebounceValue"
    /\ mounted = TRUE
    /\ value = v
    /\ vdelay = vd
    /\ debounced = v
    /\ nextHandle = 1
    /\ timers = SetTimeout(<<>>, 1, "value", vd, v)
    /\ handler = 1
    /\ atUnmount = [pending |-> <<>>, debounced |-> v]
    /\ callback = 0 /\ callbackRef = 0 /\ delay = 0 /\ timeoutRef = 0
    /\ lastCall = null /\ sinceCall = 0 /\ invoked = <<>>

\* Mutant: debouncedFn sets the new timer without clearing the previous one.
debouncedFn_NoClear(args) ==
    /\ hook = "useDebounceCallback"
    /\ nextHandle < MaxTimers
    /\ nextHandle' = nextHandle + 1
    /\ timers' = SetTimeout(timers, nextHandle + 1, "call", delay, args)
    /\ timeoutRef' = nextHandle + 1
    /\ lastCall' = Just([args |-> args, delay |-> delay, handle |-> nextHandle + 1,
                          pending |-> IF timeoutRef \in DOMAIN timers
                                      THEN Just(timers[timeoutRef]) ELSE null,
                          cb |-> callback])
    /\ sinceCall' = 0
    /\ invoked' = <<>>
    /\ UNCHANGED <<hook, mounted, callback, callbackRef, delay, value, vdelay,
                   debounced, handler, atUnmount>>

\* Mutant: with delay 0 debouncedFn invokes the callback at once instead of
\* setting a timer.
debouncedFn_SyncAtZero(args) ==
    /\ hook = "useDebounceCallback"
    /\ nextHandle < MaxTimers
    /\ nextHandle' = nextHandle + 1
    /\ timers' = IF delay = 0
                 THEN ClearIfSet(timers, timeoutRef)
                 ELSE SetTimeout(ClearIfSet(timers, timeoutRef), nextHandle + 1,
                                 "call", delay, args)
    /\ timeoutRef' = nextHandle + 1
    /\ lastCall' = Just([args |-> args, delay |-> delay, handle |-> nextHandle + 1,
                          pending |-> IF timeoutRef \in DOMAIN timers
                                      THEN Just(timers[timeoutRef]) ELSE null,
                          cb |-> callback])
    /\ sinceCall' = 0
    /\ invoked' = IF delay = 0
                  THEN <<[cb |-> callbackRef, args |-> args,
                          handle |-> nextHandle + 1, after |-> 0]>>
                  ELSE <<>>
    /\ UNCHANGED <<hook, mounted, callback, callbackRef, delay, value, vdelay,
                   debounced, handler, atUnmount>>

\* debouncedFn(...args), useDebounceCallback.ts lines 25-32.
debouncedFn(args) ==
    /\ hook = "useDebounceCallback"
    /\ nextHandle < MaxTimers
    /\ nextHandle' = nextHandle + 1
    /\ timers' = SetTimeout(ClearIfSet(timers, timeoutRef), nextHandle + 1,
                            "call", delay, args)
    /\ timeoutRef' = nextHandle + 1
    /\ lastCall' = Just([args |-> args, delay |-> delay, handle |-> nextHandle + 1,
                          pending |-> IF timeoutRef \in DOMAIN timers
                                      THEN Just(timers[timeoutRef]) ELSE null,
                          cb |-> callback])
    /\ sinceCall' = 0
    /\ invoked' = <<>>
    /\ UNCHANGED <<hook, mounted, callback, callbackRef, delay, value, vdelay,
                   debounced, handler, atUnmount>>

\* A render with a new callback argument; the effect of lines 21-23 stores it.
renderCallback(cb) ==
    /\ hook = "useDebounceCallback"
    /\ mounted
    /\ cb # callback
    /\ callback' = cb
    /\ callbackRef' = cb
    /\ UNCHANGED <<hook, mounted, timers, nextHandle, delay, timeoutRef, value, vdelay,
                   debounced, handler, lastCall, sinceCall, invoked, atUnmount>>

\* A render with a new delay argument: debouncedFn is recreated (line 32).
renderDelay(d) ==
    /\ hook = "useDebounceCallback"
    /\ mounted
    /\ d # delay
    /\ delay' = d
    /\ UNCHANGED <<hook, mounted, timers, nextHandle, callback, callbackRef, timeoutRef,
                   value, vdelay, debounced, handler, lastCall, sinceCall,
                   invoked, atUnmount>>

\* Mutant: the effect sets the new timer but its cleanup does not clear the
\* previous one.
renderValue_NoCleanup(v, vd) ==
    /\ hook = "useDebounceValue"
    /\ mounted
    /\ <<v, vd>> # <<value, vdelay>>
    /\ nextHandle < MaxTimers
    /\ nextHandle' = nextHandle + 1
    /\ value' = v
    /\ vdelay' = vd
    /\ timers' = SetTimeout(timers, nextHandle + 1, "value", vd, v)
    /\ handler' = nextHandle + 1
    /\ lastCall' = Just([args |-> v, delay |-> vd, handle |-> nextHandle + 1,
                          pending |-> IF handler \in DOMAIN timers
                                      THEN Just(timers[handler]) ELSE null,
                          before |-> debounced])
    /\ sinceCall' = 0
    /\ debounced' = debounced
    /\ UNCHANGED <<hook, mounted, callback, callbackRef, delay, timeoutRef,
                   invoked, atUnmount>>

\* Mutant: the new value is applied at once instead of after the delay.
renderValue_Leading(v, vd) ==
    /\ hook = "useDebounceValue"
    /\ mounted
    /\ <<v, vd>> # <<value, vdelay>>
    /\ nextHandle < MaxTimers
    /\ nextHandle' = nextHandle + 1
    /\ value' = v
    /\ vdelay' = vd
    /\ timers' = SetTimeout(ClearTimeout(timers, handler), nextHandle + 1, "value", vd, v)
    /\ handler' = nextHandle + 1
    /\ lastCall' = Just([args |-> v, delay |-> vd, handle |-> nextHandle + 1,
                          pending |-> IF handler \in DOMAIN timers
                                      THEN Just(timers[handler]) ELSE null,
                          before |-> debounced])
    /\ sinceCall' = 0
    /\ debounced' = v
    /\ UNCHANGED <<hook, mounted, callback, callbackRef, delay, timeoutRef,
                   invoked, atUnmount>>

\* Mutant: when only the delay changed, the cleanup clears the previous
\* timer and the effect sets no new one.
renderValue_NoTimerOnDelayChange(v, vd) ==
    /\ hook = "useDebounceValue"
    /\ mounted
    /\ <<v, vd>> # <<value, vdelay>>
    /\ nextHandle < MaxTimers
    /\ nextHandle' = nextHandle + 1
    /\ value' = v
    /\ vdelay' = vd
    /\ timers' = IF v = value
                 THEN ClearTimeout(timers, handler)
                 ELSE SetTimeout(ClearTimeout(timers, handler), nextHandle + 1,
                                 "value", vd, v)
    /\ handler' = nextHandle + 1
    /\ lastCall' = Just([args |-> v, delay |-> vd, handle |-> nextHandle + 1,
                          pending |-> IF handler \in DOMAIN timers
                                      THEN Just(timers[handler]) ELSE null,
                          before |-> debounced])
    /\ sinceCall' = 0
    /\ debounced' = debounced
    /\ UNCHANGED <<hook, mounted, callback, callbackRef, delay, timeoutRef,
                   invoked, atUnmount>>

\* A render of useDebounceValue with a changed value or delay: the effect's
\* cleanup clears the previous handler and the effect sets a new timer
\* (useElementSize.ts lines 108-111).  lastCall records this trigger: the
\* timer it replaced when that was still active, and the debounced value
\* before it.
renderValue(v, vd) ==
    /\ hook = "useDebounceValue"
    /\ mounted
    /\ <<v, vd>> # <<value, vdelay>>
    /\ nextHandle < MaxTimers
    /\ nextHandle' = nextHandle + 1
    /\ value' = v
    /\ vdelay' = vd
    /\ timers' = SetTimeout(ClearTimeout(timers, handler), nextHandle + 1, "value", vd, v)
    /\ handler' = nextHandle + 1
    /\ lastCall' = Just([args |-> v, delay |-> vd, handle |-> nextHandle + 1,
                          pending |-> IF handler \in DOMAIN timers
                                      THEN Just(timers[handler]) ELSE null,
                          before |-> debounced])
    /\ sinceCall' = 0
    /\ debounced' = debounced
    /\ UNCHANGED <<hook, mounted, callback, callbackRef, delay, timeoutRef,
                   invoked, atUnmount>>

\* Timers that are due fire in the order they were set.
CanFire(h) ==
    /\ h \in DOMAIN timers
    /\ timers[h].left = 0
    /\ \A g \in DOMAIN timers : timers[g].left = 0 => h <= g

\* Mutant: the timer invokes the callback of the render in which the call
\* was made.
fireCall_CapturedCallback(h) ==
    /\ CanFire(h)
    /\ timers[h].kind = "call"
    /\ timers' = ClearTimeout(timers, h)
    /\ invoked' = Append(invoked, [cb |-> lastCall[1].cb, args |-> timers[h].payload,
                                   handle |-> h, after |-> sinceCall])
    /\ UNCHANGED <<hook, mounted, nextHandle, callback, callbackRef, delay, timeoutRef,
                   value, vdelay, debounced, handler, lastCall, sinceCall,
                   atUnmount>>

\* The timer of a debounced call fires: callbackRef.current(...args).
fireCall(h) ==
    /\ CanFire(h)
    /\ timers[h].kind = "call"
    /\ timers' = ClearTimeout(timers, h)
    /\ invoked' = Append(invoked, [cb |-> callbackRef, args |-> timers[h].payload,
                                   handle |-> h, after |-> sinceCall])
    /\ UNCHANGED <<hook, mounted, nextHandle, callback, callbackRef, delay, timeoutRef,
                   value, vdelay, debounced, handler, lastCall, sinceCall,
                   atUnmount>>

\* The timer of useDebounceValue fires: setDebounced(value).
fireValue(h) ==
    /\ CanFire(h)
    /\ timers[h].kind = "value"
    /\ timers' = ClearTimeout(timers, h)
    /\ debounced' = timers[h].payload
    /\ UNCHANGED <<hook, mounted, nextHandle, callback, callbackRef, delay, timeoutRef,
                   value, vdelay, handler, lastCall, sinceCall, invoked,
                   atUnmount>>

\* Mutant: the unmount cleanup leaves the pending timer alone.
UnmountCleanup_NoClear == timers

\* The timers left active by the cleanup that runs on unmount:
\* useDebounceCallback.ts lines 35-41, useElementSize.ts line 110.
UnmountCleanup ==
    IF hook = "useDebounceCallback"
    THEN ClearIfSet(timers, timeoutRef)
    ELSE ClearTimeout(timers, handler)

unmountDebounce ==
    /\ mounted
    /\ mounted' = FALSE
    /\ timers' = UnmountCleanup
    /\ atUnmount' = [pending |-> timers, debounced |-> debounced]
    /\ UNCHANGED <<hook, nextHandle, callback, callbackRef, delay, timeoutRef,
                   value, vdelay, debounced, handler, lastCall, sinceCall,
                   invoked>>

\* History of the timers that were pending at unmount: the time they had
\* left goes on running down, to -1 once their due time is past.
Elapse(ts) ==
    [h \in DOMAIN ts |-> [ts[h] EXCEPT !.left = IF @ >= 0 THEN @ - 1 ELSE @]]

\* One unit of time passes; no active timer is due.
tick ==
    /\ \A h \in DOMAIN timers : timers[h].left > 0
    /\ timers' = [h \in DOMAIN timers |-> [timers[h] EXCEPT !.left = @ - 1]]
    /\ sinceCall' = IF sinceCall <= MaxDelay THEN sinceCall + 1 ELSE sinceCall
    /\ atUnmount' = [atUnmount EXCEPT !.pending = Elapse(@)]
    /\ UNCHANGED <<hook, mounted, nextHandle, callback, callbackRef, delay, timeoutRef,
                   value, vdelay, debounced, handler, lastCall, invoked>>

-----------------------------------------------------------------------------
(* useUndoRedoState.  The setters of the three cells are applied in the order
   they are called.  undo and redo are recreated when `state` changes
   (useCallback deps [state]); between a change of the state cell and the next
   render they still hold the `state` of the last render (closureState). *)

Values == 0..MaxValue

Last(s) == s[Len(s)]
Front(s) == SubSeq(s, 1, Len(s) - 1)

Cells == [state |-> state, history |-> history, future |-> future,
          initialRef |-> initialRef, closureState |-> closureState]

\* The hook after its first render.
useUndoRedoState(initialValue) ==
    /\ state = initialValue
    /\ history = <<>>
    /\ future = <<>>
    /\ initialRef = initialValue
    /\ closureState = initialValue
    /\ lastOp = [op |-> "init", arg |-> undefined, fn |-> ""]
    /\ pre = [state |-> initialValue, history |-> <<>>, future |-> <<>>,
              initialRef |-> initialValue, closureState |-> initialValue]

\* canUndo, canRedo: lines 114-115.
canUndo == Len(history) > 0
canRedo == Len(future) > 0

\* Mutant: set pushes the old value but leaves future as it is.
set_KeepFuture(v) ==
    /\ Len(history) < MaxDepth
    /\ state' = v
    /\ history' = Append(history, state)
    /\ lastOp' = [op |-> "set", arg |-> Just(v), fn |-> ""]
    /\ pre' = Cells
    /\ UNCHANGED <<future, initialRef, closureState>>

\* Mutant: set keeps history at one entry by dropping the oldest one.
set_DropOldest(v) ==
    /\ Len(history) < MaxDepth
    /\ state' = v
    /\ history' = <<state>>
    /\ future' = <<>>
    /\ lastOp' = [op |-> "set", arg |-> Just(v), fn |-> ""]
    /\ pre' = Cells
    /\ UNCHANGED <<initialRef, closureState>>

\* set(value) with a literal value, lines 77-84.
set(v) ==
    /\ Len(history) < MaxDepth
    /\ state' = v
    /\ history' = Append(history, state)
    /\ future' = <<>>
    /\ lastOp' = [op |-> "set", arg |-> Just(v), fn |-> ""]
    /\ pre' = Cells
    /\ UNCHANGED <<initialRef, closureState>>

\* Updater functions passed to set: names, applied by Apply.  The values wrap
\* around at MaxValue.
Updaters == {"inc", "double"}

Apply(f, x) ==
    IF f = "inc" THEN (x + 1) % (MaxValue + 1) ELSE (2 * x) % (MaxValue + 1)

\* Mutant: set with an updater applies it to the `state` of the last render.
setUpdater_Stale(f) ==
    /\ Len(history) < MaxDepth
    /\ state' = Apply(f, closureState)
    /\ history' = Append(history, state)
    /\ future' = <<>>
    /\ lastOp' = [op |-> "setUpdater", arg |-> undefined, fn |-> f]
    /\ pre' = Cells
    /\ UNCHANGED <<initialRef, closureState>>

\* set(value) with an updater function, lines 77-84: the updater is applied
\* to prev, the state cell at the time the update is processed.
setUpdater(f) ==
    /\ Len(history) < MaxDepth
    /\ state' = Apply(f, state)
    /\ history' = Append(history, state)
    /\ future' = <<>>
    /\ lastOp' = [op |-> "setUpdater", arg |-> undefined, fn |-> f]
    /\ pre' = Cells
    /\ UNCHANGED <<initialRef, closureState>>

\* Mutant: undo without the early return on an empty history.
undo_NoGuard ==
    /\ future' = <<closureState>> \o future
    /\ state' = IF Len(history) = 0 THEN state ELSE Last(history)
    /\ history' = IF Len(history) = 0 THEN history ELSE Front(history)
    /\ lastOp' = [op |-> "undo", arg |-> undefined, fn |-> ""]
    /\ pre' = Cells
    /\ UNCHANGED <<initialRef, closureState>>

\* undo(), lines 86-94.
undo ==
    /\ IF Len(history) = 0
       THEN UNCHANGED <<state, history, future>>
       ELSE /\ future' = <<closureState>> \o future
            /\ state' = Last(history)
            /\ history' = Front(history)
    /\ lastOp' = [op |-> "undo", arg |-> undefined, fn |-> ""]
    /\ pre' = Cells
    /\ UNCHANGED <<initialRef, closureState>>

\* redo(), lines 96-104.
redo ==
    /\ IF Len(future) = 0
       THEN UNCHANGED <<state, history, future>>
       ELSE /\ history' = Append(history, closureState)
            /\ state' = Head(future)
            /\ future' = Tail(future)
    /\ lastOp' = [op |-> "redo", arg |-> undefined, fn |-> ""]
    /\ pre' = Cells
    /\ UNCHANGED <<initialRef, closureState>>

\* Mutant: reset clears history but not future.
resetTo_KeepFuture(newInitialValue) ==
    LET v == IF newInitialValue # undefined THEN newInitialValue[1] ELSE initialRef
    IN  /\ initialRef' = v
        /\ state' = v
        /\ history' = <<>>
        /\ lastOp' = [op |-> "reset", arg |-> newInitialValue, fn |-> ""]
        /\ pre' = Cells
        /\ UNCHANGED <<future, closureState>>

\* Mutant: reset with a value does not store it as the new baseline.
resetTo_KeepBaseline(newInitialValue) ==
    LET v == IF newInitialValue # undefined THEN newInitialValue[1] ELSE initialRef
    IN  /\ state' = v
        /\ history' = <<>>
        /\ future' = <<>>
        /\ lastOp' = [op |-> "reset", arg |-> newInitialValue, fn |-> ""]
        /\ pre' = Cells
        /\ UNCHANGED <<initialRef, closureState>>

\* reset(newInitialValue), lines 106-112; undefined when called without argument.
resetTo(newInitialValue) ==
    LET v == IF newInitialValue # undefined THEN newInitialValue[1] ELSE initialRef
    IN  /\ initialRef' = v
        /\ state' = v
        /\ history' = <<>>
        /\ future' = <<>>
        /\ lastOp' = [op |-> "reset", arg |-> newInitialValue, fn |-> ""]
        /\ pre' = Cells
        /\ UNCHANGED closureState

\* The component renders after a change of the state cell: undo and redo are
\* recreated with the current `state`.
render ==
    /\ closureState # state
    /\ closureState' = state
    /\ UNCHANGED <<state, history, future, initialRef, lastOp, pre>>

-----------------------------------------------------------------------------
(* useLocalStorage.  storage is the entry of the hook's key in
   window.localStorage (null when absent).  setValue is recreated when
   storedValue changes (useCallback deps [key, storedValue]); between a change
   of the state cell and the next render it still holds the storedValue of
   the last render (closureStored). *)

\* JSON.stringify of a stored value (the values are numbers).
Stringify(v) == ToString(v)

\* Strings the entry can hold: the JSON of a value, text that is not JSON,
\* and the empty string.
Items == {Stringify(v) : v \in Values} \cup {"invalid-json", ""}

\* JSON.parse(item): the value, or a SyntaxError (ok = FALSE).
Parse(item) ==
    IF \E v \in Values : Stringify(v) = item
    THEN [ok |-> TRUE, value |-> CHOOSE v \in Values : Stringify(v) = item]
    ELSE [ok |-> FALSE, value |-> 0]

\* The useState initialiser: item ? JSON.parse(item) : initialValue, with
\* initialValue and a warning when parsing throws.
ReadInitial(item, initialValue) ==
    IF item = null \/ item = Just("")
    THEN [value |-> initialValue, warned |-> FALSE]
    ELSE IF Parse(item[1]).ok
         THEN [value |-> Parse(item[1]).value, warned |-> FALSE]
         ELSE [value |-> initialValue, warned |-> TRUE]

StorageCells == [storedValue |-> storedValue, storage |-> storage,
                 closureStored |-> closureStored]

\* The hook after its first render, called as useLocalStorage(key,
\* initialValue) with item in the entry of key.
useLocalStorage(initialValue, item) ==
    /\ lsInitialValue = initialValue
    /\ storage = item
    /\ storedValue = ReadInitial(item, initialValue).value
    /\ closureStored = ReadInitial(item, initialValue).value
    /\ lsLastOp = [op |-> "init", arg |-> undefined, fn |-> "", item |-> null, fails |-> FALSE,
                   warned |-> ReadInitial(item, initialValue).warned,
                   outcome |-> "returned"]
    /\ lsPre = [storedValue |-> initialValue, storage |-> item,
                closureStored |-> initialValue]

\* The body of setValue once valueToStore is known: setStoredValue, then
\* setItem, which throws when fails; the catch logs a warning.
Store(valueToStore, fails) ==
    /\ storedValue' = valueToStore
    /\ storage' = IF fails THEN storage ELSE Just(Stringify(valueToStore))

\* Mutant: setItem is called before setStoredValue.
setValue_StorageFirst(v, fails) ==
    /\ storedValue' = IF fails THEN storedValue ELSE v
    /\ storage' = IF fails THEN storage ELSE Just(Stringify(v))
    /\ lsLastOp' = [op |-> "setValue", arg |-> Just(v), fn |-> "", item |-> null, fails |-> fails,
                    warned |-> fails, outcome |-> "returned"]
    /\ lsPre' = StorageCells
    /\ UNCHANGED <<closureStored, lsInitialValue>>

\* setValue(value) with a literal value; fails: setItem throws.
setValue(v, fails) ==
    /\ Store(v, fails)
    /\ lsLastOp' = [op |-> "setValue", arg |-> Just(v), fn |-> "", item |-> null, fails |-> fails,
                    warned |-> fails, outcome |-> "returned"]
    /\ lsPre' = StorageCells
    /\ UNCHANGED <<closureStored, lsInitialValue>>

\* setValue(value) with an updater function: value(storedValue), with the
\* storedValue that setValue captured at the last render.
setValueUpdater(f, fails) ==
    /\ Store(Apply(f, closureStored), fails)
    /\ lsLastOp' = [op |-> "setValueUpdater", arg |-> undefined, fn |-> f, item |-> null, fails |-> fails,
                    warned |-> fails, outcome |-> "returned"]
    /\ lsPre' = StorageCells
    /\ UNCHANGED <<closureStored, lsInitialValue>>

\* removeValue(): setStoredValue(initialValue), removeItem(key).
removeValue ==
    /\ storedValue' = lsInitialValue
    /\ storage' = null
    /\ lsLastOp' = [op |-> "removeValue", arg |-> undefined, fn |-> "", item |-> null, fails |-> FALSE,
                    warned |-> FALSE, outcome |-> "returned"]
    /\ lsPre' = StorageCells
    /\ UNCHANGED <<closureStored, lsInitialValue>>

\* The key the hook is called with, and the keys of storage events.
key == "test-key"
Keys == {key, "different-key"}

\* Another tab has changed the entry of key k to newValue (null: removed it)
\* and the storage event is delivered to handleStorageChange: for the hook's
\* key and a non-null newValue, setStoredValue(JSON.parse(newValue)), with a
\* warning when parsing throws; every other event is ignored.
handleStorageChange(k, newValue) ==
    /\ storage' = IF k = key THEN newValue ELSE storage
    /\ storedValue' = IF k = key /\ newValue # null /\ Parse(newValue[1]).ok
                      THEN Parse(newValue[1]).value
                      ELSE storedValue
    /\ lsLastOp' = [op |-> "storage", arg |-> undefined, fn |-> k, item |-> newValue,
                    fails |-> FALSE,
                    warned |-> k = key /\ newValue # null /\ ~Parse(newValue[1]).ok,
                    outcome |-> "returned"]
    /\ lsPre' = StorageCells
    /\ UNCHANGED <<closureStored, lsInitialValue>>

\* The component renders after a change of storedValue: setValue is
\* recreated with the current storedValue.
renderStorage ==
    /\ closureStored # storedValue
    /\ closureStored' = storedValue
    /\ UNCHANGED <<storedValue, storage, lsInitialValue, lsLastOp, lsPre>>

-----------------------------------------------------------------------------
(* useClickOutside (src/unnamed/part_002).  A render and the effect that
   follows it are one step: the cleanup of the previous effect removes its
   listener and the new effect registers one that captures the handler of
   that render.  The DOM has a panel, a button inside the panel, and the
   body around them. *)

Elements == {"panel", "button"}
Targets == Elements \cup {"body"}
EventTypes == {"mousedown", "touchstart"}

\* el.contains(target): target is el or one of its descendants.
Contains(el, target) == target = el \/ (el = "panel" /\ target = "button")

\* What the effect of a render with handler h and enabled en registers.
Listeners(h, en) ==
    IF en THEN {[type |-> t, handler |-> h] : t \in EventTypes} ELSE {}

\* The hook after its first render and its effect, the ref not yet attached.
useClickOutside(h, en) ==
    /\ coMounted = TRUE
    /\ enabled = en
    /\ coHandler = h
    /\ refCurrent = null
    /\ docListeners = Listeners(h, en)
    /\ coEvent = null

\* Mutant: the effect has no cleanup, the listeners of earlier renders stay.
renderClick_NoCleanup(h, en) ==
    /\ coMounted
    /\ <<h, en>> # <<coHandler, enabled>>
    /\ coHandler' = h
    /\ enabled' = en
    /\ docListeners' = docListeners \cup Listeners(h, en)
    /\ UNCHANGED <<coMounted, refCurrent, coEvent>>

\* A render with a changed handler or enabled: cleanup, then the effect.
renderClick(h, en) ==
    /\ coMounted
    /\ <<h, en>> # <<coHandler, enabled>>
    /\ coHandler' = h
    /\ enabled' = en
    /\ docListeners' = Listeners(h, en)
    /\ UNCHANGED <<coMounted, refCurrent, coEvent>>

\* React attaches the ref to an element or detaches it.
attachRef(r) ==
    /\ coMounted
    /\ r # refCurrent
    /\ refCurrent' = r
    /\ UNCHANGED <<coMounted, enabled, coHandler, docListeners, coEvent>>

\* The listener of lines 21-28 returns early for this target.
Inside(target) == refCurrent # null /\ Contains(refCurrent[1], target)

\* An event of the given type on target reaches document: every listener
\* registered for the type runs.
dispatchClick(type, target) ==
    LET ran == {l \in docListeners : l.type = type /\ ~Inside(target)} IN
    /\ coEvent' = Just([type |-> type, target |-> target,
                        invoked |-> {l.handler : l \in ran},
                        times |-> Cardinality(ran),
                        mounted |-> coMounted, enabled |-> enabled,
                        handler |-> coHandler, ref |-> refCurrent])
    /\ UNCHANGED <<coMounted, enabled, coHandler, refCurrent, docListeners>>

\* Unmount: the cleanup of the last effect runs and React detaches the ref.
unmountClick ==
    /\ coMounted
    /\ coMounted' = FALSE
    /\ docListeners' = {}
    /\ refCurrent' = null
    /\ UNCHANGED <<enabled, coHandler, coEvent>>

-----------------------------------------------------------------------------
(* useEventListenerRef (src/src/hooks/useEventListenerRef.ts).  The ref
   callback calls setNode; the render that follows and its effects are part
   of the same step, as React flushes them before any event is dispatched. *)

EventNames == {"click", "scroll"}

\* The hook after its first render and its effects: no element yet.
useEventListenerRef(name, h) ==
    /\ elMounted = TRUE
    /\ eventName = name
    /\ elHandler = h
    /\ savedHandler = h
    /\ node = null
    /\ nodeListeners = {}
    /\ lastRefArg = null
    /\ elEvent = null

\* What the effect of lines 27-38 registers for node n.
NodeListener(n) == IF n = null THEN {} ELSE {[node |-> n[1], name |-> eventName]}

\* Mutant: the effect has no cleanup, the listener on the previous element
\* stays.
refCallback_NoCleanup(el) ==
    /\ lastRefArg' = el
    /\ IF elMounted
       THEN /\ node' = el
            /\ nodeListeners' = nodeListeners \cup NodeListener(el)
       ELSE UNCHANGED <<node, nodeListeners>>
    /\ UNCHANGED <<elMounted, eventName, elHandler, savedHandler, elEvent>>

\* refCallback(el): setNode(el); when node changes the cleanup removes the
\* listener from the old element and the effect adds one to the new.  After
\* unmount setNode does nothing.
refCallback(el) ==
    /\ lastRefArg' = el
    /\ IF elMounted
       THEN /\ node' = el
            /\ nodeListeners' = NodeListener(el)
       ELSE UNCHANGED <<node, nodeListeners>>
    /\ UNCHANGED <<elMounted, eventName, elHandler, savedHandler, elEvent>>

\* A render with a new handler; the effect of lines 22-24 stores it.
renderHandler(h) ==
    /\ elMounted
    /\ h # elHandler
    /\ elHandler' = h
    /\ savedHandler' = h
    /\ UNCHANGED <<elMounted, eventName, node, nodeListeners, lastRefArg, elEvent>>

\* An event named name is dispatched on element el: every listener registered
\* on el for that name calls savedHandler.current.
dispatchOn(el, name) ==
    LET ran == {l \in nodeListeners : l.node = el /\ l.name = name} IN
    /\ elEvent' = Just([target |-> el, name |-> name,
                        invoked |-> {savedHandler : l \in ran},
                        times |-> Cardinality(ran),
                        mounted |-> elMounted, latest |-> lastRefArg,
                        handler |-> elHandler])
    /\ UNCHANGED <<elMounted, eventName, elHandler, savedHandler, node,
                   nodeListeners, lastRefArg>>

\* Unmount: the cleanup of the listener effect runs.
unmountListener ==
    /\ elMounted
    /\ elMounted' = FALSE
    /\ nodeListeners' = {}
    /\ UNCHANGED <<eventName, elHandler, savedHandler, node, lastRefArg, elEvent>>

-----------------------------------------------------------------------------
(* useVisibilityObserver (src/unnamed/part_003, lines 16-55).  The callback
   of an IntersectionObserver receives the list of the entries queued since
   its last call, oldest first; only a connected observer is called. *)

\* The non-empty lists of isIntersecting an observer callback can receive.
EntryLists == UNION {[1..n -> BOOLEAN] : n \in 1..MaxEntries}

\* cleanup(): observerRef.current.disconnect().
Disconnect(obs, ref) == {o \in obs : o.id # ref}

\* The hook after its first render, before React has called ref.
useVisibilityObserver(o) ==
    /\ voMounted = TRUE
    /\ once = o
    /\ isVisible = FALSE
    /\ observerRef = 0
    /\ elementRef = null
    /\ observers = {}
    /\ observerCount = 0
    /\ lastEntries = null
    /\ onceFired = FALSE

\* ref(n), called by React with the element or with null: cleanup, then a new
\* observer for the element.
ref(n) ==
    /\ voMounted
    /\ n # null => observerCount < MaxObservers
    /\ elementRef' = n
    /\ IF n # null
       THEN /\ observerCount' = observerCount + 1
            /\ observerRef' = observerCount + 1
            /\ observers' = Disconnect(observers, observerRef)
                               \cup {[id |-> observerCount + 1, target |-> n[1],
                                      once |-> once]}
       ELSE /\ observerRef' = 0
            /\ observers' = Disconnect(observers, observerRef)
            /\ UNCHANGED observerCount
    /\ UNCHANGED <<voMounted, once, isVisible, lastEntries, onceFired>>

\* The callback of observer id runs with entries es, lines 36-41:
\* ([entry]) => { setIsVisible(entry.isIntersecting); if (once && ...) cleanup() }
observe(id, es) ==
    /\ \E o \in observers :
          /\ o.id = id
          /\ IF o.once /\ es[1]
             THEN /\ observers' = Disconnect(observers, observerRef)
                  /\ observerRef' = 0
             ELSE UNCHANGED <<observers, observerRef>>
    /\ isVisible' = es[1]
    /\ lastEntries' = Just(es)
    /\ onceFired' = (onceFired \/ (once /\ \E k \in 1..Len(es) : es[k]))
    /\ UNCHANGED <<voMounted, once, elementRef, observerCount>>

\* Unmount: React detaches the ref (ref(null)) and the cleanup of the effect
\* of lines 48-52 runs.
unmountObserver ==
    /\ voMounted
    /\ voMounted' = FALSE
    /\ elementRef' = null
    /\ observerRef' = 0
    /\ observers' = Disconnect(observers, observerRef)
    /\ UNCHANGED <<once, isVisible, observerCount, lastEntries, onceFired>>

-----------------------------------------------------------------------------
(* useIdleCallback (src/src/hooks/useElementSize.ts, lines 56-89).  With
   window.requestIdleCallback the callback is scheduled with it and cancelled
   with cancelIdleCallback, otherwise with setTimeout and clearTimeout; the
   two branches keep the same queue of scheduled handles. *)

Environments == {"requestIdleCallback", "setTimeout"}
DepsValues == 1..NumDeps

\* The hook after its first render and its effect: one callback scheduled.
useIdleCallback(cb, d, env) ==
    /\ icMounted = TRUE
    /\ icEnv = env
    /\ icCallback = cb
    /\ icCallbackRef = cb
    /\ deps = d
    /\ idleHandle = 1
    /\ idleQueue = {1}
    /\ idleCount = 1
    /\ idleRuns = <<>>
    /\ idleCancelled = {}
    /\ depChanges = 0

\* Mutant: callbackRef is written by the effect, so only when deps change.
renderIdle_RefInEffect(cb, d) ==
    /\ icMounted
    /\ <<cb, d>> # <<icCallback, deps>>
    /\ icCallback' = cb
    /\ deps' = d
    /\ IF d # deps
       THEN /\ idleCount < MaxIdle
            /\ icCallbackRef' = cb
            /\ idleCount' = idleCount + 1
            /\ idleHandle' = idleCount + 1
            /\ idleQueue' = (idleQueue \ {idleHandle}) \cup {idleCount + 1}
            /\ idleCancelled' = idleCancelled \cup (idleQueue \cap {idleHandle})
            /\ depChanges' = depChanges + 1
       ELSE UNCHANGED <<icCallbackRef, idleCount, idleHandle, idleQueue, idleCancelled,
                        depChanges>>
    /\ UNCHANGED <<icMounted, icEnv, idleRuns>>

\* A render with callback cb and deps d: callbackRef.current = callback
\* (line 61); when deps changed, the cleanup of the previous effect cancels
\* its handle and the effect schedules a new callback.
renderIdle(cb, d) ==
    /\ icMounted
    /\ <<cb, d>> # <<icCallback, deps>>
    /\ icCallback' = cb
    /\ icCallbackRef' = cb
    /\ deps' = d
    /\ IF d # deps
       THEN /\ idleCount < MaxIdle
            /\ idleCount' = idleCount + 1
            /\ idleHandle' = idleCount + 1
            /\ idleQueue' = (idleQueue \ {idleHandle}) \cup {idleCount + 1}
            /\ idleCancelled' = idleCancelled \cup (idleQueue \cap {idleHandle})
            /\ depChanges' = depChanges + 1
       ELSE UNCHANGED <<idleCount, idleHandle, idleQueue, idleCancelled, depChanges>>
    /\ UNCHANGED <<icMounted, icEnv, idleRuns>>

\* The browser runs the scheduled callback h: run(deadline) calls
\* callbackRef.current(deadline); the fallback passes a made-up deadline.
runIdle(h) ==
    /\ h \in idleQueue
    /\ idleQueue' = idleQueue \ {h}
    /\ idleRuns' = Append(idleRuns,
                          [handle |-> h, cb |-> icCallbackRef, latest |-> icCallback,
                           mounted |-> icMounted,
                           deadline |-> IF icEnv = "setTimeout"
                                        THEN "fallback" ELSE "idle"])
    /\ UNCHANGED <<icMounted, icEnv, icCallback, icCallbackRef, deps, idleHandle,
                   idleCount, idleCancelled, depChanges>>

\* Unmount: the cleanup of the last effect cancels its handle.
unmountIdle ==
    /\ icMounted
    /\ icMounted' = FALSE
    /\ idleQueue' = idleQueue \ {idleHandle}
    /\ idleCancelled' = idleCancelled \cup (idleQueue \cap {idleHandle})
    /\ UNCHANGED <<icEnv, icCallback, icCallbackRef, deps, idleHandle, idleCount,
                   idleRuns, depChanges>>

\* The initial state of the four hooks above in the specifications of the
\* other hooks, and of the other hooks in the specifications of these.
InitDomHooks ==
    /\ useClickOutside(1, TRUE)
    /\ useEventListenerRef("click", 1)
    /\ useVisibilityObserver(FALSE)
    /\ useIdleCallback(1, 1, "requestIdleCallback")

-----------------------------------------------------------------------------
(* Specification and properties of useAsync *)

InitAsync ==
    /\ \E opts \in Options : useAsync(1, opts)
    /\ useDebounceCallback(1, 0)
    /\ useUndoRedoState(0)
    /\ useLocalStorage(0, null)
    /\ InitDomHooks

NextAsync ==
    \/ execute /\ UNCHANGED <<dvars, uvars, lvars, hvars>>
    \/ \E i \in 1..MaxOps, r \in Results : resolve(i, r) /\ UNCHANGED <<dvars, uvars, lvars, hvars>>
    \/ \E i \in 1..MaxOps, e \in Thrown : reject(i, e) /\ UNCHANGED <<dvars, uvars, lvars, hvars>>
    \/ reset /\ UNCHANGED <<dvars, uvars, lvars, hvars>>
    \/ \E fn \in Fns : renderAsync(fn) /\ UNCHANGED <<dvars, uvars, lvars, hvars>>
    \/ unmountAsync /\ UNCHANGED <<dvars, uvars, lvars, hvars>>

SpecAsync == InitAsync /\ [][NextAsync]_vars

\* Calls i and i+1 of execute overlapped (i+1 started while i was awaiting)
\* and both have resolved.
PairSettled(o, i) ==
    /\ i + 1 <= Len(o)
    /\ o[i + 1].overlap
    /\ o[i].status = "resolved"
    /\ o[i + 1].status = "resolved"

\* C1: when execute is called twice, the second call before the first has
\* settled, then whichever of the two resolves last, once both have resolved
\* data is the result of the second call (the latest call of execute); the
\* first call's result does not end up in data.
C1_LastExecuteWins ==
    [][\A i \in 1..(MaxOps - 1) :
          (mountedRef /\ nOps = i + 1 /\ ~PairSettled(ops, i) /\ PairSettled(ops', i))
              => data' = Just(ops'[i + 1].value)]_vars

\* C2: once the component has unmounted, data, loading and error never
\* change again, whatever happens later (settlement of a call in flight,
\* execute, reset).
C2_NoStateChangeAfterUnmount ==
    [][~mountedRef => (data' = data /\ loading' = loading /\ error' = error)]_vars

\* Call i of execute was awaiting its promise and the promise rejects with a
\* value that is not an AbortError in this step.
FailsNow(i) ==
    /\ Pending(i)
    /\ ops'[i].status = "rejected"
    /\ ~(ops'[i].thrown[1].isError /\ ops'[i].thrown[1].name = "AbortError")

\* C13: when the current (latest) call's promise rejects with a value e that
\* is not an AbortError while the component is mounted, the state becomes
\* data = null, loading = false, error = E, where E is e itself when e is an
\* Error and otherwise an Error whose message is the string form of e;
\* onError, when configured, is invoked once, with E; the promise returned
\* by execute rejects.
C13_RejectionSetsError ==
    [][\A i \in 1..MaxOps :
          (mountedRef /\ i = nOps /\ FailsNow(i)) =>
              LET e == ops'[i].thrown[1] IN
              /\ data' = null
              /\ loading' = FALSE
              /\ error' # null
              /\ e.isError => error'[1] = e
              /\ ~e.isError => /\ error'[1].isError
                               /\ error'[1].name = "Error"
                               /\ error'[1].message = e.message
              /\ options.onError =>
                    ops'[i].called = <<[fn |-> "onError", arg |-> error']>>
              /\ ~options.onError => ops'[i].called = <<>>
              /\ ops'[i].promise.state = "rejected"]_vars

C13_Witness ==
    /\ mountedRef
    /\ options.onError
    /\ nOps >= 1
    /\ ops[nOps].status = "rejected"
    /\ ~ops[nOps].thrown[1].isError
    /\ error = Just(ErrorObj("Error", "String error"))
    /\ data = null
    /\ ~loading
    /\ Len(ops[nOps].called) = 1
    /\ ops[nOps].promise.state = "rejected"

\* C14: when a call's promise rejects with an Error named AbortError, data,
\* loading and error stay exactly as they were, onError is not invoked and
\* the promise returned by execute resolves to undefined; with every other
\* rejection the promise returned by execute rejects, with the value thrown.
C14_AbortIsSilent ==
    [][\A i \in 1..MaxOps :
          (Pending(i) /\ ops'[i].status = "rejected") =>
              LET e == ops'[i].thrown[1] IN
              IF e.isError /\ e.name = "AbortError"
              THEN /\ data' = data
                   /\ loading' = loading
                   /\ error' = error
                   /\ ops'[i].called = <<>>
                   /\ ops'[i].promise.state = "fulfilled"
                   /\ ops'[i].promise.value = undefined
              ELSE /\ ops'[i].promise.state = "rejected"
                   /\ ops'[i].promise.reason = Just(e)]_vars

C14_Witness ==
    /\ mountedRef
    /\ options.onError
    /\ nOps >= 1
    /\ ops[nOps].status = "rejected"
    /\ ops[nOps].thrown[1].name = "AbortError"
    /\ ops[nOps].promise.state = "fulfilled"
    /\ ops[nOps].promise.value = undefined
    /\ ops[nOps].called = <<>>
    /\ loading
    /\ error = null

\* C15: when a call that a later call of execute has superseded rejects with
\* a value that is not an AbortError, the failure is dropped: data, loading
\* and error do not change and onError is not invoked for it.
C15_SupersededFailureDropped ==
    [][\A i \in 1..MaxOps :
          (mountedRef /\ i < nOps /\ FailsNow(i)) =>
              /\ data' = data
              /\ loading' = loading
              /\ error' = error
              /\ ops'[i].called = <<>>]_vars

\* C16: a call of execute sets loading = true and error = null and leaves
\* data as it was: the data of an earlier completed call stays visible until
\* the new call resolves or fails.
C16_ExecuteKeepsData ==
    [][Len(ops') = Len(ops) + 1 =>
          /\ loading' = TRUE
          /\ error' = null
          /\ data' = data
          /\ ops'[Len(ops')].status = "pending"]_vars

C16_Witness ==
    /\ nOps = 2
    /\ ops[1].status = "resolved"
    /\ ~ops[2].overlap
    /\ ops[2].by = "call"
    /\ Pending(2)
    /\ loading
    /\ error = null
    /\ data = Just(ops[1].value)

\* C17: when the current (latest) call's promise resolves with r while the
\* component is mounted, the state becomes data = r, loading = false,
\* error = null; onSuccess, when configured, is invoked once, with r; the
\* promise returned by execute resolves to r.
C17_ResolutionSetsData ==
    [][\A i \in 1..MaxOps :
          (mountedRef /\ i = nOps /\ Pending(i) /\ ops'[i].status = "resolved") =>
              LET r == ops'[i].value IN
              /\ data' = Just(r)
              /\ loading' = FALSE
              /\ error' = null
              /\ options.onSuccess =>
                    ops'[i].called = <<[fn |-> "onSuccess", arg |-> Just(r)]>>
              /\ ~options.onSuccess => ops'[i].called = <<>>
              /\ ops'[i].promise.state = "fulfilled"
              /\ ops'[i].promise.value = Just(r)]_vars

C17_Witness ==
    /\ mountedRef
    /\ options.onSuccess
    /\ nOps >= 1
    /\ ops[nOps].status = "resolved"
    /\ data = Just(ops[nOps].value)
    /\ ~loading
    /\ error = null
    /\ ops[nOps].called = <<[fn |-> "onSuccess", arg |-> data]>>
    /\ ops[nOps].promise = Fulfilled(data)

\* C18: right after reset() the state is data = null, loading = false,
\* error = null, from whatever state reset was called, a call of execute in
\* flight or not.
C18_ResetClearsState ==
    afterReset => (data = null /\ loading = FALSE /\ error = null)

C18_Witness ==
    /\ afterReset
    /\ nOps = 2
    /\ ops[1].status = "resolved"
    /\ Pending(2)
    /\ data = null
    /\ ~loading

\* C19: while the component is mounted, loading is true exactly when a call
\* of execute is running: started and not yet settled.
C19_LoadingIffRunning ==
    mountedRef => (loading <=> \E i \in 1..nOps : Pending(i))

\* The calls of execute made by the immediate effect.
EffectCalls == {i \in 1..nOps : ops[i].by = "effect"}

\* C20: with immediate: true the async function is started on mount without
\* a call of execute and started by the hook exactly once, whatever
\* re-renders follow; without immediate the hook never starts it by itself.
C20_ImmediateOnce ==
    /\ options.immediate => EffectCalls = {1}
    /\ ~options.immediate => EffectCalls = {}

\* C38: reset() does not cancel or invalidate the call in flight: when a
\* call that no later call has superseded was in flight when reset() was
\* called and it resolves with r while the component is mounted, the state
\* becomes data = r, loading = false, error = null and onSuccess, when
\* configured, is invoked with r, overwriting the reset state.
C38_ResetDoesNotCancel ==
    [][\A i \in 1..MaxOps :
          (/\ mountedRef /\ i = nOps /\ Pending(i) /\ ops[i].resetInFlight
           /\ ops'[i].status = "resolved") =>
              LET r == ops'[i].value IN
              /\ data' = Just(r)
              /\ loading' = FALSE
              /\ error' = null
              /\ options.onSuccess =>
                    ops'[i].called = <<[fn |-> "onSuccess", arg |-> Just(r)]>>]_vars

\* The latest call was in flight when reset() was called and has resolved
\* since: its result is in data and onSuccess was invoked.
C38_Witness ==
    /\ mountedRef
    /\ options.onSuccess
    /\ nOps >= 1
    /\ ops[nOps].resetInFlight
    /\ ops[nOps].status = "resolved"
    /\ data = Just(ops[nOps].value)
    /\ ~loading
    /\ ops[nOps].called = <<[fn |-> "onSuccess", arg |-> data]>>

\* C39: when a call settles after the component has unmounted, neither
\* onSuccess nor onError is invoked, and the promise returned by execute
\* settles for its caller: it resolves with the call's result, or rejects
\* with the value originally thrown (not the normalized Error).
C39_SettlesForCallerAfterUnmount ==
    [][\A i \in 1..MaxOps :
          (~mountedRef /\ Pending(i) /\ ops'[i].status # "pending") =>
              /\ ops'[i].called = <<>>
              /\ ops'[i].status = "resolved" =>
                    ops'[i].promise = Fulfilled(Just(ops'[i].value))
              /\ ops'[i].status = "rejected" =>
                    ops'[i].promise = Rejected(ops'[i].thrown[1])]_vars

\* C39, amended: as C39, except that a call that throws an AbortError makes
\* the promise resolve to undefined instead of rejecting.
C39_SettlesForCallerExceptAbort ==
    [][\A i \in 1..MaxOps :
          (~mountedRef /\ Pending(i) /\ ops'[i].status # "pending") =>
              /\ ops'[i].called = <<>>
              /\ ops'[i].status = "resolved" =>
                    ops'[i].promise = Fulfilled(Just(ops'[i].value))
              /\ ops'[i].status = "rejected" =>
                    ops'[i].promise = IF IsAbortError(ops'[i].thrown[1])
                                      THEN Fulfilled(undefined)
                                      ELSE Rejected(ops'[i].thrown[1])]_vars

\* A call has thrown a value that is not an Error and no callback was invoked
\* although onError is configured, so it settled after the unmount; the
\* promise has rejected with the value thrown.
C39_Witness ==
    /\ ~mountedRef
    /\ options.onError
    /\ \E i \in 1..nOps :
          /\ ops[i].status = "rejected"
          /\ ~ops[i].thrown[1].isError
          /\ ops[i].called = <<>>
          /\ ops[i].promise = Rejected(ops[i].thrown[1])
          /\ ops[i].promise.reason # Just(ToErrorObj(ops[i].thrown[1]))

-----------------------------------------------------------------------------
(* Specification and properties of useDebounceCallback / useDebounceValue *)

InitDebounce ==
    /\ useAsync(1, NoOptions)
    /\ useUndoRedoState(0)
    /\ useLocalStorage(0, null)
    /\ \/ \E d \in Delays : useDebounceCallback(1, d)
       \/ \E vd \in Delays : useDebounceValue(1, vd)
    /\ InitDomHooks

NextDebounce ==
    \/ \E a \in Args : debouncedFn(a) /\ UNCHANGED <<avars, uvars, lvars, hvars>>
    \/ \E cb \in Callbacks : renderCallback(cb) /\ UNCHANGED <<avars, uvars, lvars, hvars>>
    \/ \E d \in Delays : renderDelay(d) /\ UNCHANGED <<avars, uvars, lvars, hvars>>
    \/ \E v \in Args, vd \in Delays : renderValue(v, vd) /\ UNCHANGED <<avars, uvars, lvars, hvars>>
    \/ \E h \in 1..MaxTimers : fireCall(h) /\ UNCHANGED <<avars, uvars, lvars, hvars>>
    \/ \E h \in 1..MaxTimers : fireValue(h) /\ UNCHANGED <<avars, uvars, lvars, hvars>>
    \/ unmountDebounce /\ UNCHANGED <<avars, uvars, lvars, hvars>>
    \/ tick /\ UNCHANGED <<avars, uvars, lvars, hvars>>

SpecDebounce == InitDebounce /\ [][NextDebounce]_vars

\* C3: in a run of calls of the debounced function, each less than delay
\* after the one before, the callback is not invoked before delay has passed
\* since the last call; it is then invoked exactly once, with the arguments of
\* that last call, and never with the arguments of an earlier call.
C3_TrailingCallOnly ==
    (hook = "useDebounceCallback" /\ lastCall # null) =>
        LET c == lastCall[1] IN
        /\ \A k \in 1..Len(invoked) :
              /\ invoked[k].handle = c.handle
              /\ invoked[k].args = c.args
              /\ invoked[k].after = c.delay
        /\ Len(invoked) <= 1
        /\ sinceCall < c.delay => invoked = <<>>
        /\ (mounted /\ sinceCall > c.delay) => Len(invoked) = 1

\* Two calls were made less than delay apart with different arguments and the
\* callback has been invoked for the second one.
C3_Witness ==
    /\ hook = "useDebounceCallback"
    /\ lastCall # null
    /\ lastCall[1].delay > 0
    /\ lastCall[1].pending # null
    /\ lastCall[1].pending[1].left > 0
    /\ lastCall[1].pending[1].payload # lastCall[1].args
    /\ Len(invoked) = 1

\* C4: a debounced action that is pending when the component unmounts never
\* takes effect: the callback is never invoked for a call whose timer was
\* pending at unmount, and the debounced value stays what it was at unmount.
C4_PendingDiscardedOnUnmount ==
    ~mounted =>
        /\ \A k \in 1..Len(invoked) : invoked[k].handle \notin DOMAIN atUnmount.pending
        /\ debounced = atUnmount.debounced

\* useDebounceCallback: unmounted with a debounced call pending, and the time
\* at which its timer was due is past.
C4_Witness ==
    /\ hook = "useDebounceCallback"
    /\ ~mounted
    /\ \E h \in DOMAIN atUnmount.pending :
          /\ atUnmount.pending[h].kind = "call"
          /\ atUnmount.pending[h].left < 0

\* useDebounceValue: unmounted with a changed value pending, and the time at
\* which its timer was due is past.
C4_WitnessValue ==
    /\ hook = "useDebounceValue"
    /\ ~mounted
    /\ \E h \in DOMAIN atUnmount.pending :
          /\ atUnmount.pending[h].kind = "value"
          /\ atUnmount.pending[h].payload # atUnmount.debounced
          /\ atUnmount.pending[h].left < 0

\* The handle each hook holds for its timer.
HeldHandle == IF hook = "useDebounceCallback" THEN timeoutRef ELSE handler

\* C11: at most one timer is outstanding per hook instance, and it is the one
\* of the latest trigger: every trigger (a call of the debounced function, a
\* changed input value or delay) cancels the outstanding timer before it
\* schedules its own, also when the delay changed between the two triggers.
C11_AtMostOneTimer ==
    /\ Cardinality(DOMAIN timers) <= 1
    /\ \A h \in DOMAIN timers : h = HeldHandle /\ h = nextHandle

\* A call of the debounced function replaced the timer of the previous call,
\* which had more time left than the new, shorter delay.
C11_Witness ==
    /\ hook = "useDebounceCallback"
    /\ lastCall # null
    /\ lastCall[1].pending # null
    /\ lastCall[1].pending[1].left > lastCall[1].delay
    /\ DOMAIN timers = {timeoutRef}

\* C12: after the input of useDebounceValue changed (to A and, less than
\* delay later, to B), the debounced value stays what it was before the
\* change until delay has passed since the last change, then is the last
\* input B; the intermediate input A is never returned.
C12_ValueAfterQuietDelay ==
    (hook = "useDebounceValue" /\ lastCall # null) =>
        LET c == lastCall[1] IN
        /\ sinceCall < c.delay => debounced = c.before
        /\ (mounted /\ sinceCall > c.delay) => debounced = c.args
        /\ debounced \in {c.before, c.args}
        /\ (c.pending # null /\ c.pending[1].payload \notin {c.before, c.args})
              => debounced # c.pending[1].payload

\* The input changed to A and, with A's timer still running, to B, A being
\* neither the value before nor B; delay has passed since and the debounced
\* value is B.
C12_Witness ==
    /\ hook = "useDebounceValue"
    /\ lastCall # null
    /\ lastCall[1].delay > 0
    /\ lastCall[1].pending # null
    /\ lastCall[1].pending[1].left > 0
    /\ lastCall[1].pending[1].payload \notin {lastCall[1].before, lastCall[1].args}
    /\ lastCall[1].before # lastCall[1].args
    /\ sinceCall >= lastCall[1].delay
    /\ debounced = lastCall[1].args

\* A trigger happens in this step: a call of debouncedFn, or a render of
\* useDebounceValue with a changed value or delay.
Trigger == lastCall' # lastCall

\* C25: with delay 0 a trigger does not take effect inside the triggering
\* call: nothing is invoked and the debounced value does not change in that
\* step, the action waits in a timer; so of two calls of the debounced
\* function made back to back with delay 0 (the timer of the first not yet
\* fired) only the second leads to an invocation, one, with its arguments.
C25_ZeroDelayDefers ==
    [][/\ (Trigger /\ lastCall'[1].delay = 0) =>
              /\ invoked' = <<>>
              /\ debounced' = debounced
              /\ lastCall'[1].handle \in DOMAIN timers'
              /\ timers'[lastCall'[1].handle].payload = lastCall'[1].args
       /\ (hook = "useDebounceCallback" /\ lastCall' # null
             /\ lastCall'[1].delay = 0 /\ lastCall'[1].pending # null) =>
              /\ Len(invoked') <= 1
              /\ \A k \in 1..Len(invoked') :
                    /\ invoked'[k].args = lastCall'[1].args
                    /\ invoked'[k].handle = lastCall'[1].handle]_vars

\* Two calls with delay 0 and different arguments, the second while the
\* timer of the first was due but had not fired; one invocation followed,
\* with the second call's arguments.
C25_Witness ==
    /\ hook = "useDebounceCallback"
    /\ lastCall # null
    /\ lastCall[1].delay = 0
    /\ lastCall[1].pending # null
    /\ lastCall[1].pending[1].left = 0
    /\ lastCall[1].pending[1].payload # lastCall[1].args
    /\ Len(invoked) = 1
    /\ invoked[1].args = lastCall[1].args
    /\ timers = <<>>

\* C26: when a pending timer fires, the function invoked is the callback of
\* the last render (the one callbackRef holds), not the callback of the
\* render in which the debounced call was made; it receives the arguments
\* of the last debounced call.
C26_LatestCallbackInvoked ==
    [][Len(invoked') > Len(invoked) =>
          /\ Len(invoked') = Len(invoked) + 1
          /\ Last(invoked').cb = callback
          /\ Last(invoked').cb = callbackRef
          /\ Last(invoked').args = lastCall[1].args]_vars

\* The callback was replaced between the call and the firing of its timer.
C26_Witness ==
    /\ hook = "useDebounceCallback"
    /\ lastCall # null
    /\ Len(invoked) = 1
    /\ invoked[1].cb # lastCall[1].cb
    /\ invoked[1].cb = callback
    /\ invoked[1].args = lastCall[1].args
    /\ lastCall[1].delay > 0

\* C27: when the callback argument changes while a debounced call is
\* pending, the pending timer is cancelled, so that the call never fires.
C27_CallbackChangeCancels ==
    [][(hook = "useDebounceCallback" /\ callback' # callback) =>
          DOMAIN timers' = {}]_vars

\* C28: once the component has unmounted, there is no outstanding timer in
\* any later state and nothing is invoked or published again, whatever
\* happens later, calls of the debounced function included.
C28_NothingAfterUnmount ==
    [][~mounted =>
          /\ DOMAIN timers' = {}
          /\ Len(invoked') <= Len(invoked)
          /\ debounced' = debounced]_vars

(* useDebounceValue under the assumption that timers eventually fire: time
   goes on while a timer is running, and a timer that is due fires. *)

InitDebounceValue ==
    /\ useAsync(1, NoOptions)
    /\ useUndoRedoState(0)
    /\ useLocalStorage(0, null)
    /\ \E vd \in Delays : useDebounceValue(1, vd)
    /\ InitDomHooks

NextDebounceValue ==
    \/ \E v \in Args, vd \in Delays : renderValue(v, vd) /\ UNCHANGED <<avars, uvars, lvars, hvars>>
    \/ \E h \in 1..MaxTimers : fireValue(h) /\ UNCHANGED <<avars, uvars, lvars, hvars>>
    \/ unmountDebounce /\ UNCHANGED <<avars, uvars, lvars, hvars>>
    \/ tick /\ UNCHANGED <<avars, uvars, lvars, hvars>>

\* The event loop at work: a due timer fires, or a unit of time passes.
TimersRun ==
    /\ tick \/ \E h \in 1..MaxTimers : fireValue(h)
    /\ UNCHANGED <<avars, uvars, lvars, hvars>>

SpecDebounceValueFair ==
    InitDebounceValue /\ [][NextDebounceValue]_vars /\ WF_vars(TimersRun)

\* C40: when the input value and the delay of useDebounceValue stop changing
\* and the component stays mounted, the debounced value eventually equals
\* the input value (timers eventually fire), and once equal it stays equal
\* until the input value changes again.
C40_EventuallySettles ==
    /\ \A v \in Args, vd \in Delays :
          (hook = "useDebounceValue" /\ mounted /\ value = v /\ vdelay = vd)
              ~> (debounced = v \/ ~mounted \/ value # v \/ vdelay # vd)
    /\ [][(debounced = value /\ value' = value) => debounced' = value']_vars

\* The input changed while the timer of an earlier change was running, the
\* component is still mounted and the debounced value has caught up with the
\* input, leaving the value it had before.
C40_Witness ==
    /\ hook = "useDebounceValue"
    /\ mounted
    /\ lastCall # null
    /\ lastCall[1].pending # null
    /\ lastCall[1].before # value
    /\ timers = <<>>
    /\ debounced = value

-----------------------------------------------------------------------------
(* Specification and properties of useUndoRedoState *)

InitUndo ==
    /\ useAsync(1, NoOptions)
    /\ useDebounceCallback(1, 0)
    /\ useUndoRedoState(0)
    /\ useLocalStorage(0, null)
    /\ InitDomHooks

NextUndo ==
    \/ \E v \in Values : set(v) /\ UNCHANGED <<avars, dvars, lvars, hvars>>
    \/ \E f \in Updaters : setUpdater(f) /\ UNCHANGED <<avars, dvars, lvars, hvars>>
    \/ undo /\ UNCHANGED <<avars, dvars, lvars, hvars>>
    \/ redo /\ UNCHANGED <<avars, dvars, lvars, hvars>>
    \/ \E a \in {undefined} \cup {Just(v) : v \in Values} :
          resetTo(a) /\ UNCHANGED <<avars, dvars, lvars, hvars>>
    \/ render /\ UNCHANGED <<avars, dvars, lvars, hvars>>

SpecUndo == InitUndo /\ [][NextUndo]_vars

\* C5: set(v) appends the old current to history, makes v current and empties
\* future, from every state; so canRedo is false after a set, also when the
\* set follows undo calls.
C5_SetPushesAndClearsFuture ==
    lastOp.op = "set" =>
        /\ history = Append(pre.history, pre.state)
        /\ state = lastOp.arg[1]
        /\ future = <<>>
        /\ ~canRedo

\* set was called after an undo: there was something to redo and something
\* to undo.
C5_Witness ==
    /\ lastOp.op = "set"
    /\ pre.future # <<>>
    /\ pre.history # <<>>

\* C6: undo() with a non-empty history makes the last element of history
\* current, removes it from history and puts the outgoing current in front of
\* future.
C6_UndoSwaps ==
    (lastOp.op = "undo" /\ pre.history # <<>>) =>
        /\ state = Last(pre.history)
        /\ history = Front(pre.history)
        /\ future = <<pre.state>> \o pre.future

\* C7: redo() with a non-empty future makes the first element of future
\* current, removes it from future and appends the outgoing current to
\* history.
C7_RedoSwaps ==
    (lastOp.op = "redo" /\ pre.future # <<>>) =>
        /\ state = Head(pre.future)
        /\ future = Tail(pre.future)
        /\ history = Append(pre.history, pre.state)

\* C8: undo() followed directly by redo() leaves current equal to the value
\* it had when undo was called.
C8_UndoRedoRoundTrip ==
    [][(lastOp.op = "undo" /\ lastOp'.op = "redo") => state' = pre.state]_vars

\* C9: reset() makes the stored baseline current, reset(v) makes v current,
\* and both empty history and future, so canUndo and canRedo are false.
C9_ResetClears ==
    lastOp.op = "reset" =>
        /\ state = IF lastOp.arg = undefined THEN pre.initialRef ELSE lastOp.arg[1]
        /\ history = <<>>
        /\ future = <<>>
        /\ ~canUndo
        /\ ~canRedo

\* reset() was called without argument when there was something to undo and
\* something to redo and current was not the baseline.
C9_Witness ==
    /\ lastOp.op = "reset"
    /\ lastOp.arg = undefined
    /\ pre.history # <<>>
    /\ pre.future # <<>>
    /\ pre.state # pre.initialRef

\* C10: undo() with an empty history and redo() with an empty future change
\* neither current nor history nor future nor the baseline, however often
\* they are called.
C10_BoundaryNoOp ==
    (\/ lastOp.op = "undo" /\ pre.history = <<>>
     \/ lastOp.op = "redo" /\ pre.future = <<>>) =>
        /\ state = pre.state
        /\ history = pre.history
        /\ future = pre.future
        /\ initialRef = pre.initialRef

\* undo() was called with an empty history while there was something to redo.
C10_Witness ==
    /\ lastOp.op = "undo"
    /\ pre.history = <<>>
    /\ pre.future # <<>>

\* The values held by a stack.
Range(s) == {s[k] : k \in 1..Len(s)}

\* A call of set, undo, redo or reset happens in this step (a render is the
\* only step that changes closureState).
CallStep == closureState' = closureState

\* C21: no value occurs in more than one of history, future and current:
\* history and future have no value in common and current occurs in neither.
C21_NoValueInTwoPlaces ==
    /\ Range(history) \cap Range(future) = {}
    /\ state \notin Range(history) \cup Range(future)

\* C22: the depth of undo and redo is bounded by the hook: the lengths of
\* history and future stay below a fixed bound however many set calls are
\* made (MaxDepth is the number of set calls the environment makes on a
\* history that long; the hook itself is to keep the stacks shorter).
C22_DepthBounded ==
    /\ Len(history) < MaxDepth
    /\ Len(future) < MaxDepth

\* C22, amended: the hook sets no bound.  Every call of set makes history one
\* entry longer and keeps every older entry, the oldest included; undo and
\* redo move one entry between history and future or do nothing, so the sum
\* of the two lengths stays the same.
C22_SetAlwaysGrowsHistory ==
    [][CallStep =>
          /\ lastOp'.op \in {"set", "setUpdater"} =>
                /\ Len(history') = Len(history) + 1
                /\ SubSeq(history', 1, Len(history)) = history
          /\ lastOp'.op \in {"undo", "redo"} =>
                Len(history') + Len(future') = Len(history) + Len(future)]_vars

\* set was called on a history that already held MaxDepth - 1 entries.
C22_Witness ==
    /\ lastOp.op = "set"
    /\ Len(pre.history) = MaxDepth - 1
    /\ Len(history) = MaxDepth
    /\ history[1] = pre.history[1]

\* C23: the baseline changes only through reset with an explicit value, to
\* that value; reset() without argument makes the baseline current and
\* leaves it as it is.  So after reset(v) every later reset() makes v
\* current, whatever set, undo and redo calls came between.
C23_BaselineFollowsExplicitReset ==
    [][/\ initialRef' # initialRef =>
              (CallStep /\ lastOp'.op = "reset" /\ lastOp'.arg = Just(initialRef'))
       /\ (CallStep /\ lastOp'.op = "reset") =>
              IF lastOp'.arg = undefined
              THEN state' = initialRef /\ initialRef' = initialRef
              ELSE state' = lastOp'.arg[1] /\ initialRef' = lastOp'.arg[1]]_vars

\* reset() without argument was called after a reset with an explicit value
\* other than the value the hook was created with (0), with calls of set
\* and undo in between.
C23_Witness ==
    /\ lastOp.op = "reset"
    /\ lastOp.arg = undefined
    /\ pre.initialRef # 0
    /\ pre.state # pre.initialRef
    /\ pre.history # <<>>
    /\ pre.future # <<>>
    /\ state = pre.initialRef
    /\ state # 0

\* C24: set(f) with an updater f makes f(current) current, appends the old
\* current to history and empties future; set(f) followed by set(g) leaves
\* current = g(f(c)) and history extended by c and f(c), c being current
\* before the first call, also without a render between the two calls.
C24_UpdaterSetsCompose ==
    [][(CallStep /\ lastOp'.op = "setUpdater") =>
          LET g == lastOp'.fn IN
          /\ state' = Apply(g, state)
          /\ history' = Append(history, state)
          /\ future' = <<>>
          /\ lastOp.op = "setUpdater" =>
                LET f == lastOp.fn
                    c == pre.state
                IN  /\ state' = Apply(g, Apply(f, c))
                    /\ history' = pre.history \o <<c, Apply(f, c)>>]_vars

\* Two sets with updaters without a render between them: the second one was
\* called while undo and redo still held the state of before the first.
C24_Witness ==
    /\ lastOp.op = "setUpdater"
    /\ pre.closureState # pre.state
    /\ Len(history) >= 2
    /\ pre.state = Apply("inc", history[Len(history) - 1])
    /\ state = Apply("double", pre.state)
    /\ state # pre.closureState

\* C36: the result of undo and redo does not depend on whether the component
\* rendered since the previous operation: an undo or redo called before the
\* render that follows a change of current leaves the same history, current
\* and future as the same call after that render; the value pushed onto
\* future or history is the value that is current when the call is applied.
C36_SameWithOrWithoutRender ==
    [][(CallStep /\ closureState # state) =>
          /\ (lastOp'.op = "undo" /\ history # <<>>) =>
                /\ history' = Front(history)
                /\ state' = Last(history)
                /\ future' = <<state>> \o future
          /\ (lastOp'.op = "redo" /\ future # <<>>) =>
                /\ history' = Append(history, state)
                /\ state' = Head(future)
                /\ future' = Tail(future)]_vars

\* C37: undo and redo are inverse on the whole state: undo() with a
\* non-empty history followed by redo() restores history, current and
\* future, redo() with a non-empty future followed by undo() restores them,
\* and neither call changes length(history) + length(future).
C37_UndoRedoInverse ==
    [][CallStep =>
          /\ (lastOp.op = "undo" /\ pre.history # <<>> /\ lastOp'.op = "redo") =>
                <<history', state', future'>> = <<pre.history, pre.state, pre.future>>
          /\ (lastOp.op = "redo" /\ pre.future # <<>> /\ lastOp'.op = "undo") =>
                <<history', state', future'>> = <<pre.history, pre.state, pre.future>>
          /\ lastOp'.op \in {"undo", "redo"} =>
                Len(history') + Len(future') = Len(history) + Len(future)]_vars

-----------------------------------------------------------------------------
(* Specification and properties of useLocalStorage *)

InitStorage ==
    /\ useAsync(1, NoOptions)
    /\ useDebounceCallback(1, 0)
    /\ useUndoRedoState(0)
    /\ \E item \in {null} \cup {Just(i) : i \in Items} : useLocalStorage(0, item)
    /\ InitDomHooks

NextStorage ==
    \/ \E v \in Values, fails \in BOOLEAN :
          setValue(v, fails) /\ UNCHANGED <<avars, dvars, uvars, hvars>>
    \/ \E f \in Updaters, fails \in BOOLEAN :
          setValueUpdater(f, fails) /\ UNCHANGED <<avars, dvars, uvars, hvars>>
    \/ removeValue /\ UNCHANGED <<avars, dvars, uvars, hvars>>
    \/ \E k \in Keys, newValue \in {null} \cup {Just(i) : i \in Items} :
          handleStorageChange(k, newValue) /\ UNCHANGED <<avars, dvars, uvars, hvars>>
    \/ renderStorage /\ UNCHANGED <<avars, dvars, uvars, hvars>>

SpecStorage == InitStorage /\ [][NextStorage]_vars

\* A call of setValue or removeValue happens in this step (a render is the
\* only step that changes closureStored).
StorageCallStep == closureStored' = closureStored

\* C29: setValue(f) with an updater stores f applied to the current value,
\* in the state and in storage, as useState's setter does; so setValue(f)
\* followed by setValue(g) without a render between them leaves
\* value = g(f(v)) and the entry = JSON of g(f(v)).
C29_UpdaterLikeUseState ==
    [][(StorageCallStep /\ lsLastOp'.op = "setValueUpdater" /\ ~lsLastOp'.fails) =>
          LET g == lsLastOp'.fn IN
          /\ storedValue' = Apply(g, storedValue)
          /\ storage' = Just(Stringify(Apply(g, storedValue)))]_vars

\* C30: when setItem throws during setValue(v), the call returns normally,
\* a warning is logged, the value becomes v and the entry keeps its content;
\* when the entry cannot be parsed at the first read, the hook starts with
\* initialValue.
C30_StorageErrorsAreSwallowed ==
    /\ (lsLastOp.op = "setValue" /\ lsLastOp.fails) =>
          /\ lsLastOp.outcome = "returned"
          /\ lsLastOp.warned
          /\ storedValue = lsLastOp.arg[1]
          /\ storage = lsPre.storage
    /\ (lsLastOp.op = "init" /\ storage # null /\ storage # Just("")
          /\ \A v \in Values : storage # Just(Stringify(v))) =>
          /\ storedValue = lsInitialValue
          /\ lsLastOp.warned

\* setValue(v) failed to write while the entry held the JSON of another
\* value than v.
C30_Witness ==
    /\ lsLastOp.op = "setValue"
    /\ lsLastOp.fails
    /\ lsPre.storage # null
    /\ lsPre.storage # Just(Stringify(lsLastOp.arg[1]))
    /\ lsPre.storedValue # lsLastOp.arg[1]
    /\ storedValue = lsLastOp.arg[1]
    /\ storage = lsPre.storage

\* The hook was created over an entry that is not JSON.
C30_WitnessParse ==
    /\ lsLastOp.op = "init"
    /\ storage = Just("invalid-json")
    /\ storedValue = lsInitialValue

\* C31: after another tab changes the entry of the hook's key (sets a new
\* value or removes it) and the storage event is delivered, the hook's value
\* reflects the change: the parsed new value, or the initial value after a
\* removal; a storage event for any other key leaves the value unchanged.
C31_CrossTabSync ==
    lsLastOp.op = "storage" =>
        IF lsLastOp.fn = key
        THEN /\ lsLastOp.item = null => storedValue = lsInitialValue
             /\ (lsLastOp.item # null /\ Parse(lsLastOp.item[1]).ok) =>
                    storedValue = Parse(lsLastOp.item[1]).value
        ELSE storedValue = lsPre.storedValue

-----------------------------------------------------------------------------
(* Specification and properties of useClickOutside *)

InitStateHooks ==
    /\ useAsync(1, NoOptions)
    /\ useDebounceCallback(1, 0)
    /\ useUndoRedoState(0)
    /\ useLocalStorage(0, null)

InitClick ==
    /\ InitStateHooks
    /\ \E en \in BOOLEAN : useClickOutside(1, en)
    /\ useEventListenerRef("click", 1)
    /\ useVisibilityObserver(FALSE)
    /\ useIdleCallback(1, 1, "requestIdleCallback")

NextClick ==
    \/ \E h \in Callbacks, en \in BOOLEAN :
          renderClick(h, en) /\ UNCHANGED <<avars, dvars, uvars, lvars, evars, ovars, ivars>>
    \/ \E r \in {null} \cup {Just(e) : e \in Elements} :
          attachRef(r) /\ UNCHANGED <<avars, dvars, uvars, lvars, evars, ovars, ivars>>
    \/ \E type \in EventTypes, target \in Targets :
          dispatchClick(type, target)
             /\ UNCHANGED <<avars, dvars, uvars, lvars, evars, ovars, ivars>>
    \/ unmountClick /\ UNCHANGED <<avars, dvars, uvars, lvars, evars, ovars, ivars>>

SpecClick == InitClick /\ [][NextClick]_vars

\* C32: for every mousedown or touchstart event, after any sequence of
\* events, enabled toggles, handler changes and unmount, a handler is
\* invoked if and only if the hook is mounted and enabled and the target is
\* not the referenced element or one of its descendants (an unattached ref
\* counts as outside); the handler invoked is the one of the latest render,
\* exactly once, and no handler passed earlier is invoked.
C32_OutsideClickInvokesLatest ==
    coEvent # null =>
        LET e == coEvent[1] IN
        IF /\ e.mounted
           /\ e.enabled
           /\ ~(e.ref # null /\ Contains(e.ref[1], e.target))
        THEN e.invoked = {e.handler} /\ e.times = 1
        ELSE e.invoked = {} /\ e.times = 0

\* A touchstart on the panel while the ref is attached to the button inside
\* it, after the handler was changed: the new handler was invoked once.
C32_Witness ==
    /\ coEvent # null
    /\ coEvent[1].type = "touchstart"
    /\ coEvent[1].ref = Just("button")
    /\ coEvent[1].target = "panel"
    /\ coEvent[1].handler # 1
    /\ coEvent[1].invoked = {coEvent[1].handler}
    /\ coEvent[1].times = 1

-----------------------------------------------------------------------------
(* Specification and properties of useEventListenerRef *)

InitListener ==
    /\ InitStateHooks
    /\ useClickOutside(1, TRUE)
    /\ \E name \in EventNames : useEventListenerRef(name, 1)
    /\ useVisibilityObserver(FALSE)
    /\ useIdleCallback(1, 1, "requestIdleCallback")

NextListener ==
    \/ \E el \in {null} \cup {Just(e) : e \in Elements} :
          refCallback(el) /\ UNCHANGED <<avars, dvars, uvars, lvars, cvars, ovars, ivars>>
    \/ \E h \in Callbacks :
          renderHandler(h) /\ UNCHANGED <<avars, dvars, uvars, lvars, cvars, ovars, ivars>>
    \/ \E el \in Elements, name \in EventNames :
          dispatchOn(el, name) /\ UNCHANGED <<avars, dvars, uvars, lvars, cvars, ovars, ivars>>
    \/ unmountListener /\ UNCHANGED <<avars, dvars, uvars, lvars, cvars, ovars, ivars>>

SpecListener == InitListener /\ [][NextListener]_vars

\* C33: for every event, after any sequence of ref-callback calls, handler
\* changes, events and unmount, an event of the given name on an element
\* invokes a handler if and only if the component is mounted and the element
\* is the one most recently passed to the ref callback; then the latest
\* handler is invoked exactly once; after unmount or re-attachment an event
\* on the old element invokes nothing.
C33_ListenerFollowsRef ==
    elEvent # null =>
        LET e == elEvent[1] IN
        IF e.mounted /\ e.name = eventName /\ e.latest = Just(e.target)
        THEN e.invoked = {e.handler} /\ e.times = 1
        ELSE e.invoked = {} /\ e.times = 0

\* An event on the button after the ref callback moved the listener there and
\* the handler was changed: the new handler was invoked once.
C33_Witness ==
    /\ elEvent # null
    /\ elEvent[1].target = "button"
    /\ elEvent[1].name = eventName
    /\ elEvent[1].handler # 1
    /\ elEvent[1].invoked = {elEvent[1].handler}
    /\ elEvent[1].times = 1

\* An event on the element the listener was on before the ref callback was
\* called with another one: nothing was invoked.
C33_WitnessOld ==
    /\ elEvent # null
    /\ elMounted
    /\ elEvent[1].name = eventName
    /\ elEvent[1].latest = Just("button")
    /\ elEvent[1].target = "panel"
    /\ elEvent[1].times = 0

-----------------------------------------------------------------------------
(* Specification and properties of useVisibilityObserver *)

InitObserver ==
    /\ InitStateHooks
    /\ useClickOutside(1, TRUE)
    /\ useEventListenerRef("click", 1)
    /\ \E o \in BOOLEAN : useVisibilityObserver(o)
    /\ useIdleCallback(1, 1, "requestIdleCallback")

NextObserver ==
    \/ \E n \in {null} \cup {Just(e) : e \in Elements} :
          ref(n) /\ UNCHANGED <<avars, dvars, uvars, lvars, cvars, evars, ivars>>
    \/ \E id \in 1..MaxObservers, es \in EntryLists :
          observe(id, es) /\ UNCHANGED <<avars, dvars, uvars, lvars, cvars, evars, ivars>>
    \/ unmountObserver /\ UNCHANGED <<avars, dvars, uvars, lvars, cvars, evars, ivars>>

SpecObserver == InitObserver /\ [][NextObserver]_vars

\* C34: isVisible is false until an entry is delivered and then equals
\* isIntersecting of the latest entry; with once, the observer is
\* disconnected at the first intersecting entry, and from then on nothing is
\* observed and isVisible stays true; at most one observer is connected, and
\* none after unmount.
C34_VisibleFollowsLatestEntry ==
    /\ lastEntries = null => isVisible = FALSE
    /\ lastEntries # null => isVisible = lastEntries[1][Len(lastEntries[1])]
    /\ onceFired => (observers = {} /\ isVisible)
    /\ Cardinality(observers) <= 1
    /\ ~voMounted => observers = {}

-----------------------------------------------------------------------------
(* Specification and properties of useIdleCallback *)

InitIdle ==
    /\ InitStateHooks
    /\ useClickOutside(1, TRUE)
    /\ useEventListenerRef("click", 1)
    /\ useVisibilityObserver(FALSE)
    /\ \E env \in Environments : useIdleCallback(1, 1, env)

NextIdle ==
    \/ \E cb \in Callbacks, d \in DepsValues :
          renderIdle(cb, d) /\ UNCHANGED <<avars, dvars, uvars, lvars, cvars, evars, ovars>>
    \/ \E h \in 1..MaxIdle :
          runIdle(h) /\ UNCHANGED <<avars, dvars, uvars, lvars, cvars, evars, ovars>>
    \/ unmountIdle /\ UNCHANGED <<avars, dvars, uvars, lvars, cvars, evars, ovars>>

SpecIdle == InitIdle /\ [][NextIdle]_vars

\* The handles of the callbacks that have run.
RanHandles == {idleRuns[k].handle : k \in 1..Len(idleRuns)}

\* C35: one idle callback is scheduled on mount and one more each time the
\* deps change; a scheduled callback that has not run when the deps change
\* or the component unmounts is cancelled and never runs; a scheduled
\* callback that runs invokes the callback of the latest render; nothing
\* runs after unmount.
C35_IdleCallbackLifecycle ==
    /\ idleCount = 1 + depChanges
    /\ \A h \in 1..idleCount :
          (h # idleHandle \/ ~icMounted) => h \in RanHandles \cup idleCancelled
    /\ idleCancelled \cap (RanHandles \cup idleQueue) = {}
    /\ \A k \in 1..Len(idleRuns) :
          /\ idleRuns[k].cb = idleRuns[k].latest
          /\ idleRuns[k].mounted

\* The deps changed before the first callback had run, so it was cancelled;
\* then the callback was replaced without a change of deps, and the second
\* scheduled callback has run, invoking the new callback.
C35_Witness ==
    /\ idleCancelled = {1}
    /\ idleCount = 2
    /\ Len(idleRuns) = 1
    /\ idleRuns[1].handle = 2
    /\ idleRuns[1].cb # 1
    /\ idleRuns[1].cb = icCallback

=========================================================================
